---- MODULE Spec2Model ----
(***************************************************************************)
(* A model of the request-dispatch layer of yt_dlp/networking:             *)
(*   - Request (networking/common.py), its constructor, data setter,       *)
(*     method property and copy();                                         *)
(*   - RequestHandler / BackendRH capability negotiation (prepare_request);*)
(*   - RequestDirector (networking/__init__.py) and the older              *)
(*     RequestHandlerBroker (networking/common.py);                        *)
(*   - the pure policy functions select_proxy and get_redirect_method      *)
(*     (networking/utils.py) and the urllib redirect handler that uses     *)
(*     the latter (networking/_urllib.py).                                 *)
(* Python values are modelled as strings, None as the string "None";       *)
(* a dict is a function whose DOMAIN is its key set.                       *)
(***************************************************************************)
EXTENDS Integers, Sequences, FiniteSets, TLC

VARIABLES
    handlers,            \* RequestDirector._handlers / RequestHandlerBroker._handlers
    ydl,                 \* the YoutubeDL object the handlers read: params and proxies
    request,             \* the Request object the caller holds and passes to send
    sender,              \* which call is running: "director", "broker", "is_supported", "none"
    pc,                  \* position of the running call: "idle", "loop", "done", "answered"
    request0,            \* history: the caller's Request as it was when send was called
    ranked,              \* the handler order the for-loop of send iterates over
    idx,                 \* number of loop iterations already finished
    handler_req,         \* the copy handed to the handler of the last iteration
    handler_reqs,        \* history: the copy each iteration made, before the handler saw it
    unsupported_errors,  \* send's local list of UnsupportedRequest errors
    unexpected_errors,   \* send's local list of unexpected errors
    invoked,             \* history: the handlers whose handle was called, in order
    outcomes,            \* history: what each of those calls did
    result,              \* what send returned or raised
    px,                  \* proxy policy: the inputs and the result of select_proxy
    rd,                  \* urllib redirect handling: the request being redirected
    ob,                  \* a Request object in its caller's hands, and a copy of it
    ex,                  \* one handler's exchange with a server, and the Response read
    openers,             \* UrllibRH._openers: the opener cached under each key
    wire,                \* one handler's handle call: what it put on the wire
    resp,                \* a Response object and the raw stream it wraps
    threads,             \* the threads inside UrllibRH.get_opener, and the openers made
    header_hooks,        \* _urllib.header_hooks, the module-level table of header hooks
    session,             \* a network.common.Session: its handler chain and one urlopen
    conn,                \* an HTTP connection wrapped by inject_header_http_conn
    gz,                  \* a gzip response body in YoutubeDLHandler.http_response
    socks                \* a proxy URL given to make_socks_proxy_opts, and its result

vars == <<handlers, ydl, request, sender, pc, request0, ranked, idx, handler_req,
          handler_reqs, unsupported_errors, unexpected_errors, invoked, outcomes,
          result, px, rd, ob, ex, openers, wire, resp, threads, header_hooks, session, conn, gz, socks>>

dirVars == <<handlers, ydl, request, sender, pc, request0, ranked, idx, handler_req,
             handler_reqs, unsupported_errors, unexpected_errors, invoked, outcomes,
             result>>

None == "None"

-----------------------------------------------------------------------------
(* Generic helpers.                                                        *)

EmptyDict == [k \in {} |-> None]

\* {**a, **b} and dict.update: the keys of both, b's value where b has the key
DictMerge(a, b) == [k \in DOMAIN a \cup DOMAIN b |-> IF k \in DOMAIN b THEN b[k] ELSE a[k]]

\* del d[k]
DictDel(d, k) == [j \in DOMAIN d \ {k} |-> d[j]]

\* d.get(k)
DictGet(d, k) == IF k \in DOMAIN d THEN d[k] ELSE None

\* the 0-based list.index; only used where x is in s
ListIndex(s, x) == (CHOOSE i \in 1..Len(s) : s[i] = x /\ \A j \in 1..(i-1) : s[j] # x) - 1

ListContains(s, x) == \E i \in 1..Len(s) : s[i] = x

\* list(reversed(s))
Reversed(s) == [i \in 1..Len(s) |-> s[Len(s) + 1 - i]]

Range(s) == {s[i] : i \in 1..Len(s)}

\* str.lower() on the strings the model uses (header names, URL schemes)
Lower(s) ==
    CASE s = "Content-Length" -> "content-length"
      [] s = "Content-length" -> "content-length"
      [] s = "Content-Type" -> "content-type"
      [] s = "Content-type" -> "content-type"
      [] s = "Youtubedl-no-compression" -> "youtubedl-no-compression"
      [] s = "Ytdl-request-proxy" -> "ytdl-request-proxy"
      [] s = "X-Test" -> "x-test"
      [] s = "X-TEST" -> "x-test"
      [] s = "HTTP" -> "http"
      [] s = "Accept-Encoding" -> "accept-encoding"
      [] s = "SOCKS5" -> "socks5"
      [] OTHER -> s

\* Python truthiness of None and of strings
Truthy(v) == v \notin {None, ""}

-----------------------------------------------------------------------------
(* Request (networking/common.py).  headers is a CaseInsensitiveDict: the  *)
(* model keys it by the lower-cased name and lower-cases every key used to *)
(* read, write or delete.                                                  *)

CIGet(d, k) == DictGet(d, Lower(k))
CIHas(d, k) == Lower(k) \in DOMAIN d
CIDel(d, k) == DictDel(d, Lower(k))
CISet(d, k, v) == DictMerge(d, [j \in {Lower(k)} |-> v])

\* data_setter guarded by the truth of the new value: assigning None changes nothing
data_setter_ignores_none(req, data) ==
    IF data # None /\ data # req.data
    THEN [req EXCEPT !.data = data,
                     !.headers = IF CIHas(req.headers, "content-length")
                                 THEN CIDel(req.headers, "content-length")
                                 ELSE req.headers]
    ELSE req

\* data_setter that deletes Content-Length only when the data is cleared
data_setter_keeps_length(req, data) ==
    IF data # req.data
    THEN [req EXCEPT !.data = data,
                     !.headers = IF data = None /\ CIHas(req.headers, "content-length")
                                 THEN CIDel(req.headers, "content-length")
                                 ELSE req.headers]
    ELSE req

\* Request.data setter
data_setter(req, data) ==
    IF data # req.data
    THEN [req EXCEPT !.data = data,
                     !.headers = IF CIHas(req.headers, "content-length")
                                 THEN CIDel(req.headers, "content-length")
                                 ELSE req.headers]
    ELSE req

\* Request.__init__
RequestInit(url, data, headers, proxies, method, compression, timeout) ==
    data_setter([url |-> url,
                 method_ |-> method,
                 headers |-> headers,
                 data |-> None,
                 timeout |-> timeout,
                 proxies |-> proxies,
                 compression |-> compression,
                 preferred_handlers |-> <<>>], data)

\* Request.method property:  self.__method or 'POST' if self.data is not None else 'GET'
\* which Python reads as  (self.__method or 'POST') if self.data is not None else 'GET'
method(req) ==
    IF req.data # None
    THEN (IF Truthy(req.method_) THEN req.method_ ELSE "POST")
    ELSE "GET"

\* Request.copy
copy(req) ==
    RequestInit(req.url, req.data, req.headers, req.proxies, method(req),
                req.compression, req.timeout)

-----------------------------------------------------------------------------
(* Request handlers.  Four handler instances exist: two UrllibRH, one      *)
(* RequestsRH and one instance of a class made by make_unavailable_rh.     *)

HandlerIds == {"u1", "u2", "r1", "x1"}

\* type(h)
handler_class(h) ==
    CASE h \in {"u1", "u2"} -> "UrllibRH"
      [] h = "r1" -> "RequestsRH"
      [] OTHER -> "UnavailableRH"

HandlerClasses == {handler_class(h) : h \in HandlerIds}

\* rh_key(): the class name without its RH suffix, the key get_request_handler looks up
rh_key(h) ==
    CASE handler_class(h) = "UrllibRH" -> "Urllib"
      [] handler_class(h) = "RequestsRH" -> "Requests"
      [] OTHER -> "Unavailable"

\* RH_NAME, the name the director prints
RH_NAME(h) ==
    CASE handler_class(h) = "UrllibRH" -> "urllib"
      [] handler_class(h) = "RequestsRH" -> "requests"
      [] OTHER -> "unavailable"

\* the reason given to make_unavailable_rh
UnavailableReason == "module is not installed"

SUPPORTED_SCHEMES(h) ==
    CASE handler_class(h) = "UrllibRH" -> {"http", "https", "data", "ftp", "file"}
      [] handler_class(h) = "RequestsRH" -> {"http", "https"}
      [] OTHER -> {}

\* _BASE_HANDLER_PREFERENCE once RequestsRH.rh_key() was inserted at index 0
BASE_HANDLER_PREFERENCE == <<"Requests", "Urllib">>

\* A raise is modelled as a result whose err is the message; err = None is a normal return.
Raised(msg, req) == [err |-> msg, req |-> req]
Returned(req) == [err |-> None, req |-> req]

\* _check_scheme comparing the scheme as written, without lower()
check_scheme_case_sensitive(h, req) ==
    IF req.url.scheme \notin SUPPORTED_SCHEMES(h)
    THEN Raised(req.url.scheme \o " scheme is not supported", req)
    ELSE Returned(req)

\* RequestHandler._check_scheme
check_scheme(h, req) ==
    LET scheme == Lower(req.url.scheme)
    IN  IF scheme \notin SUPPORTED_SCHEMES(h)
        THEN Raised(scheme \o " scheme is not supported", req)
        ELSE Returned(req)

\* _prepare_request without the file: check
sub_prepare_request_allows_file(h, y, req) == Returned(req)

\* UrllibRH._prepare_request; the hook is empty in the other classes
sub_prepare_request(h, y, req) ==
    IF /\ handler_class(h) = "UrllibRH"
       /\ Lower(req.url.scheme) = "file"
       /\ ~y.enable_file_urls
    THEN Raised("file:// scheme is disabled by default in yt-dlp for security reasons", req)
    ELSE Returned(req)

\* the compat loop of BackendRH.prepare_request: '__noproxy__' values become None
noproxy_compat(proxies) ==
    [k \in DOMAIN proxies |-> IF proxies[k] = "__noproxy__" THEN None ELSE proxies[k]]

\* merged_proxies with the two maps merged the other way round: the global
\* proxies override the request's own
merged_proxies_global_first(y, req) ==
    LET base == DictMerge(req.proxies, y.proxies)
        req_proxy == CIGet(DictMerge(y.http_headers, req.headers), "Ytdl-request-proxy")
        withHeader == IF Truthy(req_proxy)
                      THEN DictMerge(base, [k \in {"http", "https"} |-> req_proxy])
                      ELSE base
    IN  noproxy_compat(withHeader)

\* the proxy map BackendRH.prepare_request leaves in request.proxies
merged_proxies(y, req) ==
    LET base == DictMerge(y.proxies, req.proxies)
        req_proxy == CIGet(DictMerge(y.http_headers, req.headers), "Ytdl-request-proxy")
        withHeader == IF Truthy(req_proxy)
                      THEN DictMerge(base, [k \in {"http", "https"} |-> req_proxy])
                      ELSE base
    IN  noproxy_compat(withHeader)

\* request.timeout or params.get('socket_timeout') or 20; a timeout of 0 is falsy
effective_timeout(y, req) ==
    IF req.timeout \notin {None, "0"} THEN req.timeout
    ELSE IF y.socket_timeout \notin {None, "0"} THEN y.socket_timeout
    ELSE "20"

\* BackendRH.prepare_request, after the scheme check passed
backend_prepare(h, y, req) ==
    LET hdrs0 == DictMerge(y.http_headers, req.headers)
        nocomp == Truthy(CIGet(hdrs0, "Youtubedl-no-compression"))
        hdrs1 == IF nocomp THEN CIDel(hdrs0, "Youtubedl-no-compression") ELSE hdrs0
        req_proxy == CIGet(hdrs1, "Ytdl-request-proxy")
        hdrs2 == IF Truthy(req_proxy) THEN CIDel(hdrs1, "Ytdl-request-proxy") ELSE hdrs1
    IN  [req EXCEPT !.headers = hdrs2,
                    !.compression = IF nocomp THEN FALSE ELSE req.compression,
                    !.proxies = merged_proxies(y, req),
                    !.timeout = effective_timeout(y, req)]

\* prepare_request of handler h: UnavailableRH.prepare_request always raises;
\* the others run RequestHandler.prepare_request, then BackendRH.prepare_request
prepare_request(h, y, req) ==
    IF handler_class(h) = "UnavailableRH" THEN Raised(UnavailableReason, req)
    ELSE LET chk == check_scheme(h, req)
         IN  IF chk.err # None THEN chk
             ELSE sub_prepare_request(h, y, backend_prepare(h, y, req))

-----------------------------------------------------------------------------
(* RequestDirector (networking/__init__.py).                               *)

\* longest handler list and longest preferred_handlers list the model explores
MaxHandlers == 3
MaxPrefLen == 3

\* list.append(x) with x a list adds the list object as ONE element.  The model
\* writes that element as a string naming the list: the code only ever compares
\* the elements with handler keys, and a list equals no key.
AsItem(l) == "list:" \o (IF Len(l) = 0 THEN "" ELSE l[1]) \o (IF Len(l) > 1 THEN "," \o l[2] ELSE "")

\* request.preferred_handlers.append(_BASE_HANDLER_PREFERENCE)
append_base_preference(pref) == Append(pref, AsItem(BASE_HANDLER_PREFERENCE))

\* the key function handed to sorted() in RequestDirector.send
sort_key(hs, pref, h) ==
    IF ListContains(pref, rh_key(h))
    THEN ListIndex(pref, rh_key(h)) - Len(pref)
    ELSE ListIndex(Reversed(hs), h)

\* a ranking that lists every handler twice
sorted_handlers_repeating(hs, pref) == Reversed(hs) \o Reversed(hs)

\* sorted(hs, key=...): ascending by key, equal keys keep their order in hs (stable)
sorted_handlers(hs, pref) ==
    LET n == Len(hs)
        k(i) == sort_key(hs, pref, hs[i])
        pos(i) == 1 + Cardinality({j \in 1..n : k(j) < k(i) \/ (k(j) = k(i) /\ j < i)})
    IN  [p \in 1..n |-> hs[CHOOSE i \in 1..n : pos(i) = p]]

\* what a handler's transport can do with a request it accepted
ClassifiedErrors == {"HTTPError", "TransportError", "SSLError", "ProxyError"}
TransportOutcomes == {"Response", "Unexpected"} \cup ClassifiedErrors

NoResult == [kind |-> "none", handler |-> None, error |-> None, msg |-> None, reasons |-> <<>>]
ResponseOf(h) == [kind |-> "response", handler |-> h, error |-> None, msg |-> None, reasons |-> <<>>]
RaisedError(e, h, m, rs) == [kind |-> "raised", handler |-> h, error |-> e, msg |-> m, reasons |-> rs]

\* aggregate_reasons with err_handler_map[msg] = [name] in place of setdefault/append:
\* a message keeps only the last handler that raised it
aggregate_reasons_last_only(unsup, unexp) ==
    LET n == Len(unsup)
        IsFirst(i) == \A j \in 1..(i-1) : unsup[j].msg # unsup[i].msg
        firsts == SelectSeq([i \in 1..n |-> i], IsFirst)
        lastFor(m) == CHOOSE i \in 1..n : unsup[i].msg = m /\ \A j \in (i+1)..n : unsup[j].msg # m
        groups == [g \in 1..Len(firsts) |->
                      [msg |-> unsup[firsts[g]].msg,
                       handlers |-> <<RH_NAME(unsup[lastFor(unsup[firsts[g]].msg)].handler)>>,
                       count |-> 0]]
    IN  IF Len(unexp) > 0
        THEN Append(groups, [msg |-> "unexpected error(s)", handlers |-> <<>>, count |-> Len(unexp)])
        ELSE groups

\* err_handler_map and reasons at the end of RequestDirector.send: one entry per
\* distinct message, in order of first occurrence, with the RH_NAME of every handler
\* that raised it; then the number of unexpected errors, when there is any
aggregate_reasons(unsup, unexp) ==
    LET n == Len(unsup)
        IsFirst(i) == \A j \in 1..(i-1) : unsup[j].msg # unsup[i].msg
        firsts == SelectSeq([i \in 1..n |-> i], IsFirst)
        namesFor(m) ==
            LET Same(e) == e.msg = m
                es == SelectSeq(unsup, Same)
            IN  [i \in 1..Len(es) |-> RH_NAME(es[i].handler)]
        groups == [g \in 1..Len(firsts) |->
                      [msg |-> unsup[firsts[g]].msg,
                       handlers |-> namesFor(unsup[firsts[g]].msg),
                       count |-> 0]]
    IN  IF Len(unexp) > 0
        THEN Append(groups, [msg |-> "unexpected error(s)", handlers |-> <<>>, count |-> Len(unexp)])
        ELSE groups

\* handle_request_errors (networking/utils.py): an UnsupportedRequest leaving a
\* handler with no handler set gets the handler that raised it
handle_request_errors(h, msg) == [msg |-> msg, handler |-> h]

\* add_handler without the membership test
add_handler_always_appends(hs, h) == Append(hs, h)

\* RequestDirector.add_handler
add_handler(hs, h) == IF h \notin Range(hs) THEN Append(hs, h) ELSE hs

\* RequestDirector.remove_handler with a handler instance: type(h) == handler is
\* false for every h, so only the instance itself goes
remove_handler(hs, h) ==
    LET Keep(x) == ~(x = h)
    IN  SelectSeq(hs, Keep)

\* RequestDirector.remove_handler with a class: every handler of exactly that type goes
remove_handler_class(hs, cls) ==
    LET Keep(x) == ~(handler_class(x) = cls)
    IN  SelectSeq(hs, Keep)

\* RequestDirector.replace_handler
replace_handler(hs, h) == add_handler(remove_handler(hs, h), h)

\* the Request objects a caller builds and passes to send
Urls == {[scheme |-> sch, host |-> "x.com"] : sch \in {"http", "ws", "file"}}
CallerPreferences == {<<>>, <<"Urllib">>, <<"Unavailable", "Requests">>}
CallerRequests ==
    {[RequestInit(u, None, EmptyDict, EmptyDict, None, TRUE, None)
        EXCEPT !.preferred_handlers = pr] : u \in Urls, pr \in CallerPreferences}
    \cup
    {[RequestInit(u, "payload", [k \in {"ytdl-request-proxy"} |-> "P2"],
                  [k \in {"http"} |-> "__noproxy__"], None, TRUE, "5")
        EXCEPT !.preferred_handlers = pr] : u \in Urls, pr \in CallerPreferences}

DirYdls ==
    {[proxies |-> [k \in {"all"} |-> "P1"],
      http_headers |-> [k \in {"user-agent"} |-> "UA"],
      socket_timeout |-> None,
      enable_file_urls |-> e] : e \in BOOLEAN}

ResetSend ==
    /\ idx' = 0
    /\ handler_req' = None
    /\ handler_reqs' = <<>>
    /\ unsupported_errors' = <<>>
    /\ unexpected_errors' = <<>>
    /\ invoked' = <<>>
    /\ outcomes' = <<>>

AddHandler(h) ==
    /\ pc = "idle"
    /\ Len(add_handler(handlers, h)) <= MaxHandlers
    /\ handlers' = add_handler(handlers, h)
    /\ UNCHANGED <<ydl, request, sender, pc, request0, ranked, idx, handler_req, handler_reqs,
                   unsupported_errors, unexpected_errors, invoked, outcomes, result, px, rd, ob, ex, openers, wire, resp, threads, header_hooks, session, conn, gz, socks>>

RemoveHandler(h) ==
    /\ pc = "idle"
    /\ handlers' = remove_handler(handlers, h)
    /\ UNCHANGED <<ydl, request, sender, pc, request0, ranked, idx, handler_req, handler_reqs,
                   unsupported_errors, unexpected_errors, invoked, outcomes, result, px, rd, ob, ex, openers, wire, resp, threads, header_hooks, session, conn, gz, socks>>

RemoveHandlerClass(cls) ==
    /\ pc = "idle"
    /\ handlers' = remove_handler_class(handlers, cls)
    /\ UNCHANGED <<ydl, request, sender, pc, request0, ranked, idx, handler_req, handler_reqs,
                   unsupported_errors, unexpected_errors, invoked, outcomes, result, px, rd, ob, ex, openers, wire, resp, threads, header_hooks, session, conn, gz, socks>>

ReplaceHandler(h) ==
    /\ pc = "idle"
    /\ Len(replace_handler(handlers, h)) <= MaxHandlers
    /\ handlers' = replace_handler(handlers, h)
    /\ UNCHANGED <<ydl, request, sender, pc, request0, ranked, idx, handler_req, handler_reqs,
                   unsupported_errors, unexpected_errors, invoked, outcomes, result, px, rd, ob, ex, openers, wire, resp, threads, header_hooks, session, conn, gz, socks>>

\* RequestDirector.send up to the start of its for loop; r is the caller's Request
DirectorSend(r) ==
    /\ pc = "idle"
    /\ Len(r.preferred_handlers) < MaxPrefLen
    /\ sender' = "director"
    /\ request0' = r
    /\ ResetSend
    /\ IF Len(handlers) = 0
       THEN /\ request' = r
            /\ ranked' = <<>>
            /\ result' = RaisedError("RequestError", None, "No request handlers configured", <<>>)
            /\ pc' = "done"
       ELSE LET pref == append_base_preference(r.preferred_handlers)
            IN  /\ request' = [r EXCEPT !.preferred_handlers = pref]
                /\ ranked' = sorted_handlers(handlers, pref)
                /\ result' = NoResult
                /\ pc' = "loop"
    /\ UNCHANGED <<handlers, ydl, px, rd, ob, ex, openers, wire, resp, threads, header_hooks, session, conn, gz, socks>>

\* director_disposition with a Response not returned: the loop goes on
disposition_response_continues(o) ==
    CASE o = "UnsupportedRequest" -> "record_unsupported"
      [] o \in ClassifiedErrors -> "raise"
      [] OTHER -> "record_unexpected"

\* director_disposition without the except UnsupportedRequest clause
disposition_unsupported_raises(o) ==
    CASE o \in ClassifiedErrors \cup {"UnsupportedRequest"} -> "raise"
      [] o = "Unexpected" -> "record_unexpected"
      [] OTHER -> "return"

\* director_disposition with every exception recorded, a RequestError too
disposition_classified_continues(o) ==
    CASE o = "UnsupportedRequest" -> "record_unsupported"
      [] o \in ClassifiedErrors \cup {"Unexpected"} -> "record_unexpected"
      [] OTHER -> "return"

\* director_disposition with every exception but UnsupportedRequest re-raised
disposition_unexpected_raises(o) ==
    CASE o = "UnsupportedRequest" -> "record_unsupported"
      [] o \in ClassifiedErrors \cup {"Unexpected"} -> "raise"
      [] OTHER -> "return"

\* what the try/except of the loop body in RequestDirector.send does with the
\* outcome of handler.handle
director_disposition(o) ==
    CASE o = "UnsupportedRequest" -> "record_unsupported"
      [] o \in ClassifiedErrors -> "raise"
      [] o = "Unexpected" -> "record_unexpected"
      [] OTHER -> "return"

\* one iteration of the for loop of RequestDirector.send
DirectorAttempt ==
    /\ pc = "loop"
    /\ sender = "director"
    /\ idx < Len(ranked)
    /\ LET h == ranked[idx + 1]
           c == copy(request)
           p == prepare_request(h, ydl, c)
       IN  /\ handler_reqs' = Append(handler_reqs, c)
           /\ handler_req' = p.req
           /\ invoked' = Append(invoked, h)
           /\ \E o \in IF p.err # None THEN {"UnsupportedRequest"} ELSE TransportOutcomes :
                /\ outcomes' = Append(outcomes, o)
                /\ CASE director_disposition(o) = "record_unsupported" ->
                          /\ unsupported_errors' =
                                 Append(unsupported_errors, handle_request_errors(h, p.err))
                          /\ idx' = idx + 1
                          /\ UNCHANGED <<unexpected_errors, result, pc>>
                     [] director_disposition(o) = "record_unexpected" ->
                          /\ unexpected_errors' = Append(unexpected_errors, h)
                          /\ idx' = idx + 1
                          /\ UNCHANGED <<unsupported_errors, result, pc>>
                     [] director_disposition(o) = "raise" ->
                          /\ result' = RaisedError(o, h, None, <<>>)
                          /\ pc' = "done"
                          /\ UNCHANGED <<unsupported_errors, unexpected_errors, idx>>
                     [] OTHER ->
                          /\ result' = ResponseOf(h)
                          /\ pc' = "done"
                          /\ UNCHANGED <<unsupported_errors, unexpected_errors, idx>>
    /\ UNCHANGED <<handlers, ydl, request, sender, request0, ranked, px, rd, ob, ex, openers, wire, resp, threads, header_hooks, session, conn, gz, socks>>

\* the end of RequestDirector.send, reached when the for loop ran out of handlers
DirectorExhausted ==
    /\ pc = "loop"
    /\ sender = "director"
    /\ idx = Len(ranked)
    /\ result' = RaisedError("RequestError", None, "Unable to handle request",
                             aggregate_reasons(unsupported_errors, unexpected_errors))
    /\ pc' = "done"
    /\ UNCHANGED <<handlers, ydl, request, sender, request0, ranked, idx, handler_req,
                   handler_reqs, unsupported_errors, unexpected_errors, invoked, outcomes, px, rd, ob, ex, openers, wire, resp, threads, header_hooks, session, conn, gz, socks>>

\* send has returned or raised, or is_supported has answered; the caller goes on,
\* still holding its Request
Finish ==
    /\ pc \in {"done", "answered"}
    /\ pc' = "idle"
    /\ ResetSend
    /\ ranked' = <<>>
    /\ result' = NoResult
    /\ request0' = request
    /\ sender' = "none"
    /\ UNCHANGED <<handlers, ydl, request, px, rd, ob, ex, openers, wire, resp, threads, header_hooks, session, conn, gz, socks>>

\* handler.can_handle(request): the handler's capability check, the one
\* prepare_request makes, answered with a boolean
can_handle(h, y, req) == prepare_request(h, y, req).err = None

\* is_supported asking only the handler registered last
is_supported_last_only(hs, y, req) ==
    Len(hs) > 0 /\ can_handle(hs[Len(hs)], y, req)

\* RequestDirector.is_supported
is_supported(hs, y, req) ==
    \E i \in 1..Len(hs) : can_handle(hs[i], y, req)

\* a call of RequestDirector.is_supported with the caller's Request r
IsSupported(r) ==
    /\ pc = "idle"
    /\ sender' = "is_supported"
    /\ request' = r
    /\ request0' = r
    /\ ResetSend
    /\ ranked' = <<>>
    /\ result' = [NoResult EXCEPT !.kind = "returned",
                                  !.msg = IF is_supported(handlers, ydl, r) THEN "True" ELSE "False"]
    /\ pc' = "answered"
    /\ UNCHANGED <<handlers, ydl, px, rd, ob, ex, openers, wire, resp, threads, header_hooks, session, conn, gz, socks>>

\* RequestHandlerBroker.send (networking/common.py) up to the start of its for loop
BrokerSend(r) ==
    /\ pc = "idle"
    /\ sender' = "broker"
    /\ request0' = r
    /\ request' = r
    /\ ResetSend
    /\ IF Len(handlers) = 0
       THEN /\ ranked' = <<>>
            /\ result' = RaisedError("YoutubeDLError", None, "No request handlers configured", <<>>)
            /\ pc' = "done"
       ELSE /\ ranked' = Reversed(handlers)
            /\ result' = NoResult
            /\ pc' = "loop"
    /\ UNCHANGED <<handlers, ydl, px, rd, ob, ex, openers, wire, resp, threads, header_hooks, session, conn, gz, socks>>

\* one iteration of the for loop of RequestHandlerBroker.send; there a handler's
\* handle may also return nothing
BrokerAttempt ==
    /\ pc = "loop"
    /\ sender = "broker"
    /\ idx < Len(ranked)
    /\ LET h == ranked[idx + 1]
           c == copy(request)
           p == prepare_request(h, ydl, c)
       IN  /\ handler_reqs' = Append(handler_reqs, c)
           /\ handler_req' = p.req
           /\ invoked' = Append(invoked, h)
           /\ IF p.err # None
              THEN /\ outcomes' = Append(outcomes, "UnsupportedRequest")
                   /\ idx' = idx + 1
                   /\ UNCHANGED <<result, pc>>
              ELSE \E o \in TransportOutcomes \cup {"Nothing"} :
                   /\ outcomes' = Append(outcomes, o)
                   /\ CASE o = "Response" ->
                             /\ result' = ResponseOf(h)
                             /\ pc' = "done"
                             /\ UNCHANGED idx
                        [] o \in ClassifiedErrors ->
                             /\ result' = RaisedError(o, h, None, <<>>)
                             /\ pc' = "done"
                             /\ UNCHANGED idx
                        [] o = "Unexpected" ->
                             /\ result' = RaisedError("Exception", None, None, <<>>)
                             /\ pc' = "done"
                             /\ UNCHANGED idx
                        [] OTHER ->
                             /\ idx' = idx + 1
                             /\ UNCHANGED <<result, pc>>
    /\ UNCHANGED <<handlers, ydl, request, sender, request0, ranked,
                   unsupported_errors, unexpected_errors, px, rd, ob, ex, openers, wire, resp, threads, header_hooks, session, conn, gz, socks>>

\* the end of RequestHandlerBroker.send
BrokerExhausted ==
    /\ pc = "loop"
    /\ sender = "broker"
    /\ idx = Len(ranked)
    /\ result' = RaisedError("YoutubeDLError", None,
                             "No request handlers configured that could handle this request.", <<>>)
    /\ pc' = "done"
    /\ UNCHANGED <<handlers, ydl, request, sender, request0, ranked, idx, handler_req,
                   handler_reqs, unsupported_errors, unexpected_errors, invoked, outcomes, px, rd, ob, ex, openers, wire, resp, threads, header_hooks, session, conn, gz, socks>>

PxIdle == [url |-> [scheme |-> "http", host |-> "x.com"], proxies |-> EmptyDict,
           sys_bypass |-> FALSE, stage |-> "idle", called |-> FALSE, selected |-> None]
RdIdle == [stage |-> "idle", method |-> "GET", data |-> None, headers |-> EmptyDict, hops |-> 0,
           code |-> 0, old_method |-> "GET", old_data |-> None, old_headers |-> EmptyDict]
ObIdle == [stage |-> "idle"]
ExIdle == [stage |-> "idle", hops |-> 0]
NoOpeners == EmptyDict
WireIdle == [stage |-> "idle"]
RespIdle == [stage |-> "idle"]
NoThreads == [stage |-> "idle"]
NoHooks == EmptyDict
SessionIdle == [stage |-> "idle"]
ConnIdle == [stage |-> "idle"]
GzIdle == [stage |-> "idle"]
SocksIdle == [stage |-> "idle"]

\* the parts of the program a specification does not exercise stay as constructed
LaterIdle ==
    /\ threads = NoThreads
    /\ header_hooks = NoHooks
    /\ session = SessionIdle
    /\ conn = ConnIdle
    /\ gz = GzIdle
    /\ socks = SocksIdle

DirInit ==
    /\ handlers = <<>>
    /\ ydl \in DirYdls
    /\ request \in {r \in CallerRequests : r.url.scheme = "http" /\ r.preferred_handlers = <<>> /\ r.data = None}
    /\ request0 = request
    /\ sender = "none"
    /\ pc = "idle"
    /\ ranked = <<>>
    /\ idx = 0
    /\ handler_req = None
    /\ handler_reqs = <<>>
    /\ unsupported_errors = <<>>
    /\ unexpected_errors = <<>>
    /\ invoked = <<>>
    /\ outcomes = <<>>
    /\ result = NoResult

Init ==
    /\ DirInit
    /\ px = PxIdle
    /\ rd = RdIdle
    /\ ob = ObIdle
    /\ ex = ExIdle
    /\ openers = NoOpeners
    /\ wire = WireIdle
    /\ resp = RespIdle
    /\ LaterIdle

Next ==
    \/ \E h \in HandlerIds : AddHandler(h)
    \/ \E h \in HandlerIds : RemoveHandler(h)
    \/ \E cls \in HandlerClasses : RemoveHandlerClass(cls)
    \/ \E h \in HandlerIds : ReplaceHandler(h)
    \/ \E r \in CallerRequests \cup {request} : DirectorSend(r)
    \/ DirectorAttempt
    \/ DirectorExhausted
    \/ \E r \in CallerRequests \cup {request} : BrokerSend(r)
    \/ BrokerAttempt
    \/ BrokerExhausted
    \/ \E r \in CallerRequests \cup {request} : IsSupported(r)
    \/ Finish

Spec == Init /\ [][Next]_vars

-----------------------------------------------------------------------------
(* Proxy policy (networking/utils.py).  A URL is its scheme and host; a    *)
(* no-proxy value is the comma-separated list of names it holds.           *)

\* the names a no_proxy string splits into
NoProxyNames(no_proxy) ==
    CASE no_proxy = "x.com" -> {"x.com"}
      [] no_proxy = "y.org" -> {"y.org"}
      [] no_proxy = "x.com,y.org" -> {"x.com", "y.org"}
      [] OTHER -> {}

\* the names host equals or ends with, after a dot
HostSuffixes(host) ==
    CASE host = "a.x.com" -> {"a.x.com", "x.com", "com"}
      [] host = "x.com" -> {"x.com", "com"}
      [] host = "y.org" -> {"y.org", "org"}
      [] OTHER -> {host}

\* urllib.request.proxy_bypass_environment(hostport, {'no': no_proxy})
proxy_bypass_environment(host, no_proxy) ==
    \/ no_proxy = "*"
    \/ NoProxyNames(no_proxy) \cap HostSuffixes(host) # {}

\* bypass_proxies; sys is what urllib.request.proxy_bypass answers from the
\* system's settings
bypass_proxies(url, no_proxy, sys) ==
    IF proxy_bypass_environment(url.host, no_proxy) THEN TRUE
    ELSE IF sys THEN TRUE
    ELSE FALSE

\* traverse_obj(obj, key1, key2): the value under the first of the keys that
\* yields something other than None
traverse_obj(obj, keys) ==
    LET hits == {i \in 1..Len(keys) : DictGet(obj, keys[i]) # None}
    IN  IF hits = {} THEN None
        ELSE obj[keys[CHOOSE i \in hits : \A j \in hits : i <= j]]

\* select_proxy with an 'all' entry preferred to the scheme's own
select_proxy_all_first(url, proxies, sys) ==
    IF "no" \in DOMAIN proxies /\ bypass_proxies(url, proxies["no"], sys)
    THEN None
    ELSE traverse_obj(proxies, <<"all", IF url.scheme # "" THEN Lower(url.scheme) ELSE "http">>)

\* select_proxy
select_proxy(url, proxies, sys) ==
    IF "no" \in DOMAIN proxies /\ bypass_proxies(url, proxies["no"], sys)
    THEN None
    ELSE traverse_obj(proxies, <<IF url.scheme # "" THEN Lower(url.scheme) ELSE "http", "all">>)

ProxyValues == {None, "A", "B"}
NoProxyValues == {"*", "x.com", "x.com,y.org"}
\* every proxy map over the keys http, https, all and no
ProxyMaps ==
    UNION {[ks -> ProxyValues] : ks \in SUBSET {"http", "https", "all"}}
    \cup
    UNION {{DictMerge(m, [k \in {"no"} |-> nv]) : m \in [ks -> ProxyValues], nv \in NoProxyValues}
              : ks \in SUBSET {"http", "https", "all"}}
ProxyUrls == {[scheme |-> sch, host |-> ho] : sch \in {"http", "https", ""}, ho \in {"a.x.com", "y.org"}}

\* a call of select_proxy(url, proxies), as YDLProxyHandler.proxy_open and
\* requests' adapter make it
SelectProxy ==
    /\ px.stage = "ready"
    /\ ~px.called
    /\ px' = [px EXCEPT !.called = TRUE,
                        !.selected = select_proxy(px.url, px.proxies, px.sys_bypass)]
    /\ UNCHANGED <<dirVars, rd, ob, ex, openers, wire, resp, threads, header_hooks, session, conn, gz, socks>>

-----------------------------------------------------------------------------
(* Redirect policy (networking/utils.py) and the urllib redirect handler    *)
(* (networking/_urllib.py).                                                *)

\* most redirects one request is followed through in the model
MaxRedirects == 3

RedirectCodes == {301, 302, 303, 307, 308}
Methods == {"GET", "HEAD", "POST", "PUT", "DELETE"}

\* get_redirect_method whose 303 rule forgets HEAD
get_redirect_method_303_get(m, status) ==
    LET m1 == IF status = 303 THEN "GET" ELSE m
    IN  IF status \in {301, 302} /\ m1 = "POST" THEN "GET" ELSE m1

\* get_redirect_method
get_redirect_method(m, status) ==
    LET m1 == IF status = 303 /\ m # "HEAD" THEN "GET" ELSE m
    IN  IF status \in {301, 302} /\ m1 = "POST" THEN "GET" ELSE m1

\* YDLRedirectHandler.redirect_request: the request re-issued after a redirect with
\* status code.  The header names of a urllib request are capitalized
\* ('Content-length'); remove_headers holds 'Content-Length' and 'Content-Type' and
\* is compared with the lower-cased names.
redirect_request(req, code) ==
    LET new_method == get_redirect_method(req.method, code)
        changed == new_method # req.method
        remove_headers == IF changed THEN {"Content-Length", "Content-Type"} ELSE {}
        kept == {k \in DOMAIN req.headers : Lower(k) \notin remove_headers}
    IN  [method |-> new_method,
         data |-> IF changed THEN None ELSE req.data,
         headers |-> [k \in kept |-> req.headers[k]]]

\* the header sets of the urllib requests UrllibRH._real_handle builds
UrllibHeaders ==
    {[k \in ks |-> "v"] : ks \in {{}, {"Accept"}, {"Content-length", "Content-type", "Accept"}}}

\* one redirect followed by the urllib opener: http_error_30x calls redirect_request
\* and re-issues what it returns; any other code raises HTTPError
Redirect(code) ==
    /\ rd.stage = "open"
    /\ rd.hops < MaxRedirects
    /\ IF code \in RedirectCodes
       THEN LET new == redirect_request([method |-> rd.method, data |-> rd.data,
                                         headers |-> rd.headers], code)
            IN  rd' = [rd EXCEPT !.method = new.method, !.data = new.data,
                                 !.headers = new.headers, !.hops = rd.hops + 1, !.code = code,
                                 !.old_method = rd.method, !.old_data = rd.data,
                                 !.old_headers = rd.headers]
       ELSE rd' = [rd EXCEPT !.stage = "HTTPError", !.code = code]
    /\ UNCHANGED <<dirVars, px, ob, ex, openers, wire, resp, threads, header_hooks, session, conn, gz, socks>>

-----------------------------------------------------------------------------
(* Properties of RequestDirector.send and RequestHandlerBroker.send.       *)

InDirector == sender = "director"
Attempts == 1..Len(outcomes)
CountOutcome(o) == Cardinality({i \in Attempts : outcomes[i] = o})
\* the message prepare_request gave at attempt i, None when it accepted the request
ReasonAt(i) == prepare_request(invoked[i], ydl, handler_reqs[i]).err

\* C1: RequestDirector.send returns the Response of the first handler, in ranked
\* order, whose handle succeeds: the handlers are called in ranked order with none
\* skipped, a Response ends the send at once with that Response as its result, and
\* no handler ranked after the successful one is called.
C1_FirstSuccessWins ==
    InDirector =>
        /\ Len(invoked) = Len(outcomes)
        /\ Len(invoked) <= Len(ranked)
        /\ invoked = SubSeq(ranked, 1, Len(invoked))
        /\ \A i \in Attempts :
              outcomes[i] = "Response" =>
                  /\ pc = "done"
                  /\ i = Len(invoked)
                  /\ result = ResponseOf(ranked[i])
        /\ result.kind = "response" =>
              /\ Len(outcomes) > 0
              /\ outcomes[Len(outcomes)] = "Response"
              /\ \A j \in 1..(Len(outcomes) - 1) : outcomes[j] # "Response"

\* a send that returned the second handler's Response and left a third one untried
C1_Witness ==
    /\ InDirector
    /\ pc = "done"
    /\ result.kind = "response"
    /\ Len(invoked) = 2
    /\ Len(ranked) = 3
    /\ result.handler = ranked[2]

\* C2: an UnsupportedRequest is recorded and the send goes on to the next ranked
\* handler; no send raises UnsupportedRequest to its caller; with handlers [A, B]
\* and no per-request preference a request B rejects and A accepts reaches A's
\* transport.  Holds for the director and for the broker.
C2_UnsupportedRecovered ==
    /\ result.error # "UnsupportedRequest"
    /\ \A i \in Attempts :
          (outcomes[i] = "UnsupportedRequest" /\ pc = "done" /\ i < Len(ranked))
              => Len(invoked) > i
    /\ InDirector =>
          /\ Len(unsupported_errors) = CountOutcome("UnsupportedRequest")
          /\ \A i \in Attempts :
                outcomes[i] = "UnsupportedRequest" =>
                    \E e \in Range(unsupported_errors) :
                        e.handler = invoked[i] /\ e.msg = ReasonAt(i)
    /\ ( /\ pc = "done"
         /\ Len(handlers) = 2
         /\ request0.preferred_handlers = <<>>
         /\ prepare_request(handlers[2], ydl, copy(request0)).err # None
         /\ prepare_request(handlers[1], ydl, copy(request0)).err = None )
       => \E i \in Attempts : invoked[i] = handlers[1] /\ outcomes[i] # "UnsupportedRequest"

\* handlers [A, B], B rejected the request and the director returned A's Response
C2_Witness ==
    /\ InDirector
    /\ pc = "done"
    /\ Len(handlers) = 2
    /\ request0.preferred_handlers = <<>>
    /\ outcomes = <<"UnsupportedRequest", "Response">>
    /\ invoked = <<handlers[2], handlers[1]>>
    /\ result = ResponseOf(handlers[1])

\* C3: a classified request error raised by a handler ends RequestDirector.send at
\* once: the send raises that error, of that handler, and calls no further handler.
C3_ClassifiedPropagates ==
    InDirector =>
        \A i \in Attempts :
            outcomes[i] \in ClassifiedErrors =>
                /\ pc = "done"
                /\ i = Len(invoked)
                /\ result = RaisedError(outcomes[i], invoked[i], None, <<>>)

\* the second handler raised SSLError and a third handler was never called
C3_Witness ==
    /\ InDirector
    /\ pc = "done"
    /\ Len(ranked) = 3
    /\ Len(invoked) = 2
    /\ outcomes[2] = "SSLError"
    /\ result.error = "SSLError"

\* C4: an exception that is no RequestError is recorded as unexpected and the send
\* goes on: it is never what the send raises, and a send that ended had called the
\* next ranked handler after it whenever there was one.
C4_UnexpectedContinues ==
    InDirector =>
        /\ Len(unexpected_errors) = CountOutcome("Unexpected")
        /\ result.error \notin {"Unexpected", "Exception"}
        /\ \A i \in Attempts :
              (outcomes[i] = "Unexpected" /\ pc = "done" /\ i < Len(ranked))
                  => Len(invoked) > i

\* the first handler failed unexpectedly and the second one's Response was returned
C4_Witness ==
    /\ InDirector
    /\ pc = "done"
    /\ Len(outcomes) = 2
    /\ outcomes[1] = "Unexpected"
    /\ result.kind = "response"

\* every registered handler was tried and none returned or raised a classified error
Exhausted ==
    /\ InDirector
    /\ pc = "done"
    /\ Len(ranked) > 0
    /\ Len(outcomes) = Len(ranked)
    /\ \A i \in Attempts : outcomes[i] \in {"UnsupportedRequest", "Unexpected"}

ReasonGroups == {g \in 1..Len(result.reasons) : result.reasons[g].count = 0}
CountEntries == {g \in 1..Len(result.reasons) : result.reasons[g].count # 0}
NameCount(names, nm) == Cardinality({k \in 1..Len(names) : names[k] = nm})

\* C5: when every handler was tried without success the send raises one RequestError
\* 'Unable to handle request' whose reasons hold, for each distinct unsupported
\* message, exactly one entry naming every handler that gave it (as often as it gave
\* it), and after them the number of unexpected errors when there is any; with two
\* handlers that both reject, both are named.
C5_AggregatedError ==
    Exhausted =>
        /\ result.kind = "raised"
        /\ result.error = "RequestError"
        /\ result.msg = "Unable to handle request"
        /\ \A i \in Attempts :
              outcomes[i] = "UnsupportedRequest" =>
                  Cardinality({g \in ReasonGroups : result.reasons[g].msg = ReasonAt(i)}) = 1
        /\ \A g \in ReasonGroups :
              LET m == result.reasons[g].msg
                  from == {i \in Attempts : outcomes[i] = "UnsupportedRequest" /\ ReasonAt(i) = m}
              IN  /\ from # {}
                  /\ Len(result.reasons[g].handlers) = Cardinality(from)
                  /\ \A i \in from :
                        NameCount(result.reasons[g].handlers, RH_NAME(invoked[i])) =
                            Cardinality({j \in from : RH_NAME(invoked[j]) = RH_NAME(invoked[i])})
        /\ Cardinality(CountEntries) = (IF CountOutcome("Unexpected") > 0 THEN 1 ELSE 0)
        /\ \A g \in CountEntries :
              /\ g = Len(result.reasons)
              /\ result.reasons[g].count = CountOutcome("Unexpected")
        /\ (Len(ranked) = 2 /\ CountOutcome("UnsupportedRequest") = 2) =>
              \A i \in Attempts :
                  \E g \in ReasonGroups : NameCount(result.reasons[g].handlers, RH_NAME(invoked[i])) > 0

\* three handlers rejected: two for one reason, named together, one for another
C5_Witness ==
    /\ Exhausted
    /\ Len(ranked) = 3
    /\ Cardinality(ReasonGroups) = 2
    /\ \E g \in ReasonGroups : Len(result.reasons[g].handlers) = 2

\* the preference list the claim ranks by: the request's preferred handler names
\* followed by the base preference list
FullPreference == request0.preferred_handlers \o BASE_HANDLER_PREFERENCE
\* the rank C6 gives a handler: its key's position in that list, and after all
\* listed handlers the unlisted ones, most recently registered first
ClaimedRank(h) ==
    IF ListContains(FullPreference, rh_key(h))
    THEN ListIndex(FullPreference, rh_key(h))
    ELSE Len(FullPreference) + ListIndex(Reversed(handlers), h)

\* C6 as claimed: the director tries the handlers named in the request's preference
\* list followed by the base preference list first, by position in that list, and
\* the handlers not named in it after them, most recently registered first.
C6_RankedByFullPreference ==
    (InDirector /\ pc \in {"loop", "done"}) =>
        \A i, j \in 1..Len(ranked) :
            i < j => ClaimedRank(ranked[i]) <= ClaimedRank(ranked[j])

\* C7 as claimed: a send never writes to the Request the caller passed.
C7_CallerRequestUntouched ==
    (InDirector /\ pc \in {"loop", "done"}) => request = request0

-----------------------------------------------------------------------------
(* select_proxy on its own: the inputs are drawn in the initial state.      *)

DirIdle ==
    /\ handlers = <<>>
    /\ ydl = CHOOSE y \in DirYdls : ~y.enable_file_urls
    /\ request = RequestInit([scheme |-> "http", host |-> "x.com"], None, EmptyDict, EmptyDict,
                             None, TRUE, None)
    /\ request0 = request
    /\ sender = "none"
    /\ pc = "idle"
    /\ ranked = <<>>
    /\ idx = 0
    /\ handler_req = None
    /\ handler_reqs = <<>>
    /\ unsupported_errors = <<>>
    /\ unexpected_errors = <<>>
    /\ invoked = <<>>
    /\ outcomes = <<>>
    /\ result = NoResult

InitSelect ==
    /\ DirIdle
    /\ rd = RdIdle
    /\ ob = ObIdle
    /\ ex = ExIdle
    /\ openers = NoOpeners
    /\ wire = WireIdle
    /\ resp = RespIdle
    /\ LaterIdle
    /\ px \in [url : ProxyUrls, proxies : ProxyMaps, sys_bypass : BOOLEAN,
               stage : {"ready"}, called : {FALSE}, selected : {None}]

NextSelect == SelectProxy

SpecSelect == InitSelect /\ [][NextSelect]_vars

PxScheme == IF px.url.scheme # "" THEN Lower(px.url.scheme) ELSE "http"
PxBypassed ==
    /\ "no" \in DOMAIN px.proxies
    /\ \/ px.proxies["no"] = "*"
       \/ \E nm \in NoProxyNames(px.proxies["no"]) : nm \in HostSuffixes(px.url.host)
       \/ px.sys_bypass
HasProxy(k) == k \in DOMAIN px.proxies /\ px.proxies[k] # None

\* C9 as claimed: select_proxy returns proxies[scheme] when the scheme is a key of
\* the map, otherwise proxies['all'] when that key is present, otherwise none.
C9_SchemeThenAll ==
    px.called =>
        px.selected = (IF PxScheme \in DOMAIN px.proxies THEN px.proxies[PxScheme]
                       ELSE IF "all" \in DOMAIN px.proxies THEN px.proxies["all"]
                       ELSE None)

\* C9, amended: select_proxy returns none when the map has a 'no' entry and the
\* bypass predicate matches the URL; otherwise the value under the scheme when the
\* map holds one that is not None there, otherwise the value under 'all' when the
\* map holds one that is not None there, otherwise none.  For {'all': A, 'http': B}
\* an https URL selects A and an http URL selects B.
C9_SelectProxy ==
    px.called =>
        /\ px.selected = (IF PxBypassed THEN None
                          ELSE IF HasProxy(PxScheme) THEN px.proxies[PxScheme]
                          ELSE IF HasProxy("all") THEN px.proxies["all"]
                          ELSE None)
        /\ px.proxies = [k \in {"all", "http"} |-> IF k = "all" THEN "A" ELSE "B"] =>
              /\ px.url.scheme = "https" => px.selected = "A"
              /\ px.url.scheme = "http" => px.selected = "B"

\* select_proxy was called with {'all': A, 'http': B} and an https URL
C9_Witness ==
    /\ px.called
    /\ px.proxies = [k \in {"all", "http"} |-> IF k = "all" THEN "A" ELSE "B"]
    /\ px.url.scheme = "https"
    /\ px.selected = "A"

-----------------------------------------------------------------------------
(* prepare_request called on a Request, and the proxy then selected for it. *)

PrepYdls ==
    {[proxies |-> pm,
      http_headers |-> [k \in {"user-agent"} |-> "UA"],
      socket_timeout |-> None,
      enable_file_urls |-> e] :
        pm \in UNION {[ks -> {"P1", "__noproxy__"}] : ks \in SUBSET {"http", "all"}},
        e \in BOOLEAN}

PrepHeaders ==
    {DictMerge(a, b) :
        a \in {EmptyDict} \cup {[k \in {"ytdl-request-proxy"} |-> v] : v \in {"", "P3", "__noproxy__"}},
        b \in {EmptyDict, [k \in {"youtubedl-no-compression"} |-> "1"]}}

PrepProxies ==
    {DictMerge(a, b) :
        a \in {EmptyDict} \cup {[k \in {"http"} |-> v] : v \in {"P2", "__noproxy__"}},
        b \in {EmptyDict, [k \in {"https"} |-> "P2"]}}

PrepRequests ==
    {RequestInit([scheme |-> sch, host |-> "a.x.com"], None, hd, pm, None, co, None) :
        sch \in {"http", "file", "ws"}, hd \in PrepHeaders, pm \in PrepProxies, co \in BOOLEAN}

\* handler.prepare_request(request): handler_req is the request as the call left it
PrepareRequest(h) ==
    /\ px.stage = "new"
    /\ LET p == prepare_request(h, ydl, request)
       IN  /\ handler_req' = p.req
           /\ invoked' = <<h>>
           /\ outcomes' = <<IF p.err # None THEN "UnsupportedRequest" ELSE "Prepared">>
           /\ result' = IF p.err # None
                        THEN RaisedError("UnsupportedRequest", h, p.err, <<>>)
                        ELSE NoResult
           /\ px' = [px EXCEPT !.url = p.req.url,
                               !.proxies = p.req.proxies,
                               !.stage = IF p.err # None THEN "rejected" ELSE "ready"]
    /\ UNCHANGED <<handlers, ydl, request, sender, pc, request0, ranked, idx, handler_reqs,
                   unsupported_errors, unexpected_errors, rd, ob, ex, openers, wire, resp, threads, header_hooks, session, conn, gz, socks>>

InitPrepare ==
    /\ handlers = <<>>
    /\ ydl \in PrepYdls
    /\ request \in PrepRequests
    /\ request0 = request
    /\ sender = "none"
    /\ pc = "idle"
    /\ ranked = <<>>
    /\ idx = 0
    /\ handler_req = None
    /\ handler_reqs = <<>>
    /\ unsupported_errors = <<>>
    /\ unexpected_errors = <<>>
    /\ invoked = <<>>
    /\ outcomes = <<>>
    /\ result = NoResult
    /\ rd = RdIdle
    /\ ob = ObIdle
    /\ ex = ExIdle
    /\ openers = NoOpeners
    /\ wire = WireIdle
    /\ resp = RespIdle
    /\ LaterIdle
    /\ px = [PxIdle EXCEPT !.stage = "new"]

NextPrepare ==
    \/ \E h \in HandlerIds \ {"u2"} : PrepareRequest(h)
    \/ SelectProxy

SpecPrepare == InitPrepare /\ [][NextPrepare]_vars

Prepared == px.stage = "ready" /\ outcomes = <<"Prepared">>
\* the Ytdl-request-proxy header of the request as prepare_request reads it
ProxyHeader == CIGet(DictMerge(ydl.http_headers, request.headers), "Ytdl-request-proxy")

\* C10 as claimed: after prepare_request the request's proxy map holds, for every
\* key, the value of the highest-priority source that defines the key, the sources
\* being, in ascending priority, the global proxies, the request's own proxy map
\* and the Ytdl-request-proxy header, which defines both 'http' and 'https'.
C10_MergeByPriority ==
    Prepared =>
        LET eff == handler_req.proxies
            hk == IF ProxyHeader # None THEN {"http", "https"} ELSE {}
        IN  /\ DOMAIN eff = DOMAIN ydl.proxies \cup DOMAIN request.proxies \cup hk
            /\ \A k \in DOMAIN eff :
                  eff[k] = (IF k \in hk THEN ProxyHeader
                            ELSE IF k \in DOMAIN request.proxies THEN request.proxies[k]
                            ELSE ydl.proxies[k])

\* C10, amended: as claimed, for a Ytdl-request-proxy header with a non-empty value
\* (an empty one overrides nothing), and with the winning value stored as None when
\* it is '__noproxy__'.
C10_EffectiveProxies ==
    Prepared =>
        LET eff == handler_req.proxies
            hk == IF ProxyHeader \notin {None, ""} THEN {"http", "https"} ELSE {}
            winner(k) == IF k \in hk THEN ProxyHeader
                         ELSE IF k \in DOMAIN request.proxies THEN request.proxies[k]
                         ELSE ydl.proxies[k]
        IN  /\ DOMAIN eff = DOMAIN ydl.proxies \cup DOMAIN request.proxies \cup hk
            /\ \A k \in DOMAIN eff :
                  eff[k] = (IF winner(k) = "__noproxy__" THEN None ELSE winner(k))

\* all three sources define 'http': the header's value wins there and under 'https',
\* the global 'all' entry stays
C10_Witness ==
    /\ Prepared
    /\ ProxyHeader = "P3"
    /\ "http" \in DOMAIN request.proxies /\ request.proxies["http"] = "P2"
    /\ ydl.proxies = [k \in {"http", "all"} |-> "P1"]
    /\ handler_req.proxies = [k \in {"http", "https", "all"} |-> IF k = "all" THEN "P1" ELSE "P3"]

-----------------------------------------------------------------------------
(* A request followed through redirects by the urllib handler.             *)

InitRedirect ==
    /\ DirIdle
    /\ px = PxIdle
    /\ ob = ObIdle
    /\ ex = ExIdle
    /\ openers = NoOpeners
    /\ wire = WireIdle
    /\ resp = RespIdle
    /\ LaterIdle
    /\ rd \in {[RdIdle EXCEPT !.stage = "open", !.method = m, !.data = d, !.headers = hd,
                              !.old_method = m, !.old_data = d, !.old_headers = hd] :
                  m \in Methods, d \in {None, "payload"}, hd \in UrllibHeaders}

NextRedirect == \E code \in RedirectCodes \cup {300} : Redirect(code)

SpecRedirect == InitRedirect /\ [][NextRedirect]_vars

Redirected == rd.stage = "open" /\ rd.hops > 0

\* C8: get_redirect_method gives, for every method and every status of 301, 302,
\* 303, 307 and 308: on 303 GET, but HEAD for HEAD; on 301 and 302 GET for POST and
\* the method itself otherwise; on 307 and 308 the method itself.  rd.method is what
\* it returned for rd.old_method and rd.code.
C8_RedirectTable ==
    Redirected =>
        /\ rd.code = 303 => rd.method = (IF rd.old_method = "HEAD" THEN "HEAD" ELSE "GET")
        /\ rd.code \in {301, 302} =>
              rd.method = (IF rd.old_method = "POST" THEN "GET" ELSE rd.old_method)
        /\ rd.code \in {307, 308} => rd.method = rd.old_method

\* a HEAD request answered with 303 went on as HEAD
C8_Witness ==
    /\ Redirected
    /\ rd.code = 303
    /\ rd.old_method = "HEAD"
    /\ rd.method = "HEAD"

-----------------------------------------------------------------------------
(* The proxy a prepared request is sent through.                           *)

\* C11 as claimed: a request whose Ytdl-request-proxy header is '__noproxy__' is
\* sent through no proxy, whatever the global proxies are (under the request's
\* scheme or under 'all'), and the header is not among the headers sent.
C11_NoProxyHeader ==
    (px.called /\ outcomes = <<"Prepared">> /\ ProxyHeader = "__noproxy__") =>
        /\ px.selected = None
        /\ ~CIHas(handler_req.headers, "Ytdl-request-proxy")

-----------------------------------------------------------------------------
(* A Request object in its caller's hands: the caller builds it, assigns    *)
(* data, method and headers, and reads them back.  ob.req is the object;    *)
(* ob.op, ob.arg and ob.before record the last call and the object as it    *)
(* was before it; ob.assigned is the data last assigned, ob.written the     *)
(* value last written under each header name, whatever its letter case.     *)

\* the payload values of test_data_type
DataValues == {None, "b'test'", "[b'test', b'test2']", "BytesIO(b'test')", "'test'", "{'test': 'test'}"}

\* type(data)
DataType(d) ==
    CASE d = None -> "NoneType"
      [] d = "[b'test', b'test2']" -> "iterable"
      [] d = "BytesIO(b'test')" -> "stream"
      [] d = "'test'" -> "str"
      [] d = "{'test': 'test'}" -> "mapping"
      [] OTHER -> "bytes"

\* CaseInsensitiveDict(items): the items are written one after the other
RECURSIVE CaseInsensitiveDict(_)
CaseInsensitiveDict(items) ==
    IF Len(items) = 0 THEN EmptyDict
    ELSE CISet(CaseInsensitiveDict(SubSeq(items, 1, Len(items) - 1)),
               items[Len(items)][1], items[Len(items)][2])

\* add_header storing the key as given, in a plain dict
add_header_raw(req, key, value) ==
    [req EXCEPT !.headers = DictMerge(@, [j \in {key} |-> value])]

\* Request.add_header
add_header(req, key, value) == [req EXCEPT !.headers = CISet(@, key, value)]

\* request.headers[key] = value
headers_setitem(req, key, value) == [req EXCEPT !.headers = CISet(@, key, value)]

\* Request.get_header
get_header(req, key) == CIGet(req.headers, key)

\* Request.method setter
method_setter(req, m) == [req EXCEPT !.method_ = m]

HeaderNames == {"X-Test", "x-test", "X-TEST", "Content-Length"}
HeaderValues == {"1", "2"}
LogicalNames == {Lower(k) : k \in HeaderNames}
\* the headers mappings a caller hands to the constructor, as lists of items
RawHeaders ==
    {<<>>, <<<<"X-Test", "1">>>>, <<<<"x-test", "1">>, <<"X-TEST", "2">>>>,
     <<<<"Content-Length", "1">>>>, <<<<"Content-Length", "1">>, <<"X-Test", "2">>>>}
AssignedMethods == {"PUT", "HEAD"}

\* the value last written under logical name lk by the items
LastWritten(items, lk) ==
    LET hits == {i \in 1..Len(items) : Lower(items[i][1]) = lk}
    IN  IF hits = {} THEN None
        ELSE items[CHOOSE i \in hits : \A j \in hits : j <= i][2]

\* request.data = d
ObSetData(d) ==
    /\ ob.stage = "live"
    /\ ob' = [ob EXCEPT !.req = data_setter(ob.req, d), !.op = "data", !.arg = <<d>>,
                        !.before = ob.req, !.assigned = d, !.raised = None]
    /\ UNCHANGED <<dirVars, px, rd, ex, openers, wire, resp, threads, header_hooks, session, conn, gz, socks>>

\* request.method = m
ObSetMethod(m) ==
    /\ ob.stage = "live"
    /\ ob' = [ob EXCEPT !.req = method_setter(ob.req, m), !.op = "method", !.arg = <<m>>,
                        !.before = ob.req, !.raised = None]
    /\ UNCHANGED <<dirVars, px, rd, ex, openers, wire, resp, threads, header_hooks, session, conn, gz, socks>>

\* request.add_header(k, v)
ObAddHeader(k, v) ==
    /\ ob.stage = "live"
    /\ ob' = [ob EXCEPT !.req = add_header(ob.req, k, v), !.op = "add_header", !.arg = <<k, v>>,
                        !.before = ob.req, !.written = [@ EXCEPT ![Lower(k)] = v],
                        !.raised = None]
    /\ UNCHANGED <<dirVars, px, rd, ex, openers, wire, resp, threads, header_hooks, session, conn, gz, socks>>

\* request.headers[k] = v
ObSetHeaderItem(k, v) ==
    /\ ob.stage = "live"
    /\ ob' = [ob EXCEPT !.req = headers_setitem(ob.req, k, v), !.op = "setitem", !.arg = <<k, v>>,
                        !.before = ob.req, !.written = [@ EXCEPT ![Lower(k)] = v],
                        !.raised = None]
    /\ UNCHANGED <<dirVars, px, rd, ex, openers, wire, resp, threads, header_hooks, session, conn, gz, socks>>

\* what ob.cp holds while no copy was made
NoCopy == RequestInit([scheme |-> "http", host |-> "x.com"], None, EmptyDict, EmptyDict, None, TRUE, None)

\* Request(url, data=d, headers=items, method=m)
ObNew(d, items, m) ==
    LET r == RequestInit([scheme |-> "http", host |-> "x.com"], d, CaseInsensitiveDict(items),
                         EmptyDict, m, TRUE, None)
    IN  [stage |-> "live", req |-> r, copied |-> FALSE, cp |-> NoCopy, op |-> "init", arg |-> <<d, m>>,
         before |-> r, assigned |-> d,
         written |-> [lk \in LogicalNames |-> LastWritten(items, lk)],
         raised |-> None, cp_assigned |-> None]

InitRequest ==
    /\ DirIdle
    /\ px = PxIdle
    /\ rd = RdIdle
    /\ ex = ExIdle
    /\ openers = NoOpeners
    /\ wire = WireIdle
    /\ resp = RespIdle
    /\ LaterIdle
    /\ ob \in {ObNew(d, items, m) : d \in DataValues, items \in RawHeaders, m \in {None, "PUT"}}

NextRequest ==
    \/ \E d \in DataValues : ObSetData(d)
    \/ \E m \in AssignedMethods : ObSetMethod(m)
    \/ \E k \in HeaderNames, v \in HeaderValues : ObAddHeader(k, v)
    \/ \E k \in HeaderNames, v \in HeaderValues : ObSetHeaderItem(k, v)

SpecRequest == InitRequest /\ [][NextRequest]_vars

-----------------------------------------------------------------------------
(* Properties of the Request object.                                       *)

ObLive == ob.stage = "live"
ObHasLength(r) == CIHas(r.headers, "Content-Length")

\* C12: a Request with no explicit method reads POST whenever the data last
\* assigned (by the constructor or by an assignment) is present, and GET whenever
\* it was cleared, whatever was assigned before.
C12_MethodFollowsData ==
    (ObLive /\ ob.req.method_ = None) =>
        method(ob.req) = (IF ob.assigned # None THEN "POST" ELSE "GET")

\* data was present, read POST, and was cleared: the method reads GET again
C12_Witness ==
    /\ ObLive
    /\ ob.req.method_ = None
    /\ ob.op = "data"
    /\ ob.arg = <<None>>
    /\ ob.before.data = "b'test'"
    /\ method(ob.before) = "POST"
    /\ method(ob.req) = "GET"

\* C13 as claimed: once a method M was set on a Request, by the constructor or by
\* assignment, Request.method reads M, whatever is assigned to data afterwards.
C13_ExplicitMethodKept ==
    (ObLive /\ ob.req.method_ # None) => method(ob.req) = ob.req.method_

\* C15: the headers of a Request are case-insensitive: no two entries have names
\* that are equal when lower-cased, a name read in any letter case gives the value
\* last written under any case of it (by the constructor, add_header or
\* headers[...] = ...), and right after a write every case of the name reads the
\* value written.
C15_CaseInsensitiveHeaders ==
    ObLive =>
        /\ \A k1, k2 \in DOMAIN ob.req.headers : Lower(k1) = Lower(k2) => k1 = k2
        /\ \A k \in HeaderNames :
              Lower(k) # "content-length" => get_header(ob.req, k) = ob.written[Lower(k)]
        /\ ob.op \in {"add_header", "setitem"} =>
              \A k \in HeaderNames :
                  Lower(k) = Lower(ob.arg[1]) => get_header(ob.req, k) = ob.arg[2]

\* 'X-Test' was written with one value, then 'X-TEST' with another: 'x-test' reads
\* the second, and there is one entry
C15_Witness ==
    /\ ObLive
    /\ ob.op = "add_header"
    /\ ob.arg = <<"X-TEST", "2">>
    /\ get_header(ob.before, "X-Test") = "1"
    /\ get_header(ob.req, "x-test") = "2"
    /\ Cardinality(DOMAIN ob.req.headers) = 1

\* C16 as claimed: after every assignment to data the request has no
\* Content-Length header.
C16_DataDropsLength ==
    (ObLive /\ ob.op = "data") => ~ObHasLength(ob.req)

\* C16, amended: after every assignment to data of a value that differs from the
\* data the request held, the request has no Content-Length header; an assignment
\* of a value equal to the data held leaves the headers as they were.
C16_ChangedDataDropsLength ==
    (ObLive /\ ob.op = "data") =>
        IF ob.arg[1] # ob.before.data
        THEN ~ObHasLength(ob.req) /\ ob.req.data = ob.arg[1]
        ELSE ob.req = ob.before

\* a request with data and a Content-Length header got other data and lost the header
C16_Witness ==
    /\ ObLive
    /\ ob.op = "data"
    /\ ObHasLength(ob.before)
    /\ ob.before.data = "b'test'"
    /\ ob.arg = <<"[b'test', b'test2']">>
    /\ ~ObHasLength(ob.req)

\* C17 as claimed: assigning a text string or a mapping to data raises a type error
\* and leaves the data as it was; bytes, an iterable of bytes and a byte stream are
\* accepted and read back unchanged.
C17_DataTypeChecked ==
    (ObLive /\ ob.op = "data") =>
        IF DataType(ob.arg[1]) \in {"str", "mapping"}
        THEN ob.raised = "TypeError" /\ ob.req.data = ob.before.data
        ELSE ob.raised = None /\ ob.req.data = ob.arg[1]

-----------------------------------------------------------------------------
(* A Request and a copy of it.  ob.cp is the copy once ob.copied is true;   *)
(* ob.cp_assigned is the data the copy was made with or was last assigned.  *)

\* cp = request.copy()
ObCopy ==
    /\ ob.stage = "live"
    /\ ~ob.copied
    /\ ob' = [ob EXCEPT !.copied = TRUE, !.cp = copy(ob.req), !.cp_assigned = ob.req.data, !.op = "copy",
                        !.arg = <<>>, !.before = ob.req, !.raised = None]
    /\ UNCHANGED <<dirVars, px, rd, ex, openers, wire, resp, threads, header_hooks, session, conn, gz, socks>>

\* cp.data = d
CpSetData(d) ==
    /\ ob.stage = "live"
    /\ ob.copied
    /\ ob' = [ob EXCEPT !.cp = data_setter(ob.cp, d), !.cp_assigned = d, !.op = "cp_data",
                        !.arg = <<d>>, !.before = ob.req, !.raised = None]
    /\ UNCHANGED <<dirVars, px, rd, ex, openers, wire, resp, threads, header_hooks, session, conn, gz, socks>>

NextCopy ==
    \/ ObCopy
    \/ \E d \in DataValues : CpSetData(d)
    \/ \E d \in DataValues : ObSetData(d)

SpecCopy == InitRequest /\ [][NextCopy]_vars

\* C14 as claimed: the copy of a request created without an explicit method infers
\* its method as the original does: the copy reads POST whenever the data it holds
\* is present and GET whenever it was cleared, the original goes on reading by its
\* own data, and an assignment to the copy's data leaves the original as it was.
C14_CopyInfersMethod ==
    (ObLive /\ ob.copied /\ ob.req.method_ = None) =>
        /\ method(ob.cp) = (IF ob.cp_assigned # None THEN "POST" ELSE "GET")
        /\ method(ob.req) = (IF ob.assigned # None THEN "POST" ELSE "GET")
        /\ ob.op = "cp_data" => ob.req = ob.before

-----------------------------------------------------------------------------
(* One handler's exchange with a server (networking/_urllib.py,             *)
(* networking/_requests.py).  The server answers each request with a status *)
(* and, for a redirect, a Location; the HTTP library under the handler      *)
(* follows redirects up to its limit; the handler turns what the library    *)
(* returns or raises into a Response or an HTTPError.                       *)

\* HTTPRedirectHandler.max_repeats and max_redirections, which YDLRedirectHandler
\* inherits, and requests' Session.max_redirects, which RequestsSession inherits
max_repeats == 4
max_redirections == 10
max_redirects == 30

StatusCodes == {200, 204, 300, 301, 302, 303, 307, 308, 404, 500}
ExUrls == {"/a", "/b"}
Is2xx(status) == 200 <= status /\ status < 300

\* what a handler hands back: a Response, or an HTTPError carrying one
ExReturned(status) == [error |-> None, status |-> status, redirect_loop |-> FALSE]
ExHTTPError(status, loop) == [error |-> "HTTPError", status |-> status, redirect_loop |-> loop]
ExUnexpected == [error |-> "Unexpected", status |-> 0, redirect_loop |-> FALSE]

\* urllib_real_handle that never looks for 'redirect error' in the message
urllib_real_handle_no_loop_flag(o) ==
    CASE o.kind = "response" -> ExReturned(o.status)
      [] o.kind = "HTTPError" /\ o.fp_is_response -> ExHTTPError(o.status, FALSE)
      [] OTHER -> ExUnexpected

\* urllib_real_handle whose HTTPError carries no status
urllib_real_handle_no_status(o) ==
    CASE o.kind = "response" -> ExReturned(o.status)
      [] o.kind = "HTTPError" /\ o.fp_is_response -> ExHTTPError(0, o.redirect_error)
      [] OTHER -> ExUnexpected

\* UrllibRH._real_handle, given what opener.open returned or raised: o.kind is
\* "response" or "HTTPError", o.status the status of the response (of e.fp),
\* o.fp_is_response whether e.fp is a response object, o.redirect_error whether
\* str(e) holds 'redirect error'
urllib_real_handle(o) ==
    CASE o.kind = "response" -> ExReturned(o.status)
      [] o.kind = "HTTPError" /\ o.fp_is_response -> ExHTTPError(o.status, o.redirect_error)
      [] OTHER -> ExUnexpected

\* RequestsRH._send, given what session.request returned or raised: o.kind is
\* "response" or "TooManyRedirects", o.status the status of the response (of
\* e.response)
requests_send(o) ==
    LET max_redirects_exceeded == o.kind = "TooManyRedirects"
    IN  IF ~Is2xx(o.status)
        THEN ExHTTPError(o.status, max_redirects_exceeded)
        ELSE ExReturned(o.status)

\* a redirect the library follows: a redirect status with a Location
ExIsRedirect(code, loc) == code \in RedirectCodes /\ loc # None

\* the loop detection of HTTPRedirectHandler.http_error_302 and of
\* Session.resolve_redirects: TRUE when the library gives up on this redirect
ExLimitHit(e, loc) ==
    IF e.handler = "urllib"
    THEN \/ e.visited[loc] >= max_repeats
         \/ Cardinality({u \in ExUrls : e.visited[u] > 0}) >= max_redirections
    ELSE e.hops >= max_redirects

\* what the library hands the handler when the exchange ends with this answer
ExLibraryOutcome(e, code, loc) ==
    IF e.handler = "urllib"
    THEN IF Is2xx(code)
         THEN [kind |-> "response", status |-> code, fp_is_response |-> TRUE,
               redirect_error |-> FALSE]
         ELSE [kind |-> "HTTPError", status |-> code, fp_is_response |-> TRUE,
               redirect_error |-> ExIsRedirect(code, loc)]
    ELSE [kind |-> IF ExIsRedirect(code, loc) THEN "TooManyRedirects" ELSE "response",
          status |-> code, fp_is_response |-> TRUE, redirect_error |-> FALSE]

\* the answers the server may give to the request for e.url
ExAnswers(e) ==
    IF e.server = "loop"
    THEN {<<code, e.url>> : code \in RedirectCodes}
    ELSE {<<code, loc>> : code \in StatusCodes, loc \in ExUrls \cup {None}}

\* the server answered with a redirect and the library follows it
ExRedirected(code, loc) ==
    /\ ex.stage = "open"
    /\ <<code, loc>> \in ExAnswers(ex)
    /\ ExIsRedirect(code, loc)
    /\ ~ExLimitHit(ex, loc)
    /\ ex' = [ex EXCEPT !.url = loc, !.hops = @ + 1, !.status = code,
                        !.visited = [@ EXCEPT ![loc] = @ + 1]]
    /\ UNCHANGED <<dirVars, px, rd, ob, openers, wire, resp, threads, header_hooks, session, conn, gz, socks>>

\* the server's answer ends the exchange: the library returns or raises, and the
\* handler returns a Response or raises
ExCompleted(code, loc) ==
    /\ ex.stage = "open"
    /\ <<code, loc>> \in ExAnswers(ex)
    /\ ExIsRedirect(code, loc) => ExLimitHit(ex, loc)
    /\ ex' = [ex EXCEPT !.stage = "done", !.status = code,
                        !.result = IF ex.handler = "urllib"
                                   THEN urllib_real_handle(ExLibraryOutcome(ex, code, loc))
                                   ELSE requests_send(ExLibraryOutcome(ex, code, loc))]
    /\ UNCHANGED <<dirVars, px, rd, ob, openers, wire, resp, threads, header_hooks, session, conn, gz, socks>>

InitExchange ==
    /\ DirIdle
    /\ px = PxIdle
    /\ rd = RdIdle
    /\ ob = ObIdle
    /\ openers = NoOpeners
    /\ wire = WireIdle
    /\ resp = RespIdle
    /\ LaterIdle
    /\ ex \in {[stage |-> "open", handler |-> h, server |-> s, url |-> "/a", hops |-> 0,
                status |-> 0, visited |-> [u \in ExUrls |-> 0], result |-> ExReturned(0)] :
                 h \in {"urllib", "requests"}, s \in {"any", "loop"}}

NextExchange ==
    \/ \E code \in StatusCodes, loc \in ExUrls : ExRedirected(code, loc)
    \/ \E code \in StatusCodes, loc \in ExUrls \cup {None} : ExCompleted(code, loc)

SpecExchange == InitExchange /\ [][NextExchange]_vars

\* the server answers every request and the library acts on every answer
SpecExchangeFair == SpecExchange /\ WF_vars(NextExchange)

ExDone == ex.stage = "done"

ExMostFollowed == IF max_redirects > max_repeats * Cardinality(ExUrls)
                  THEN max_redirects ELSE max_repeats * Cardinality(ExUrls)

-----------------------------------------------------------------------------
(* read() on the Response a handler returned (UrllibResponseAdapter.read,   *)
(* RequestsResponse.read).  The body has a declared Content-Length and the  *)
(* server delivers some of it before the connection closes.  An exception   *)
(* is a record of its type, its partial and expected attributes, its        *)
(* __cause__ and its args; a partial is a bytes object or an int.           *)

\* largest Content-Length the model explores
MaxBody == 4

BytesObj(n) == [type |-> "bytes", n |-> n]
IntCount(n) == [type |-> "int", n |-> n]
NoPartial == [type |-> "none", n |-> 0]
NoExc == [type |-> "none", partial |-> NoPartial, expected |-> 0]
ExcLeaf(t, p, x) == [type |-> t, partial |-> p, expected |-> x]
\* an exception with a __cause__ and one more argument, both leaves
Exc(t, p, x, cause, arg) ==
    [type |-> t, partial |-> p, expected |-> x, cause |-> cause, args |-> <<arg>>]

\* the errors raw.read raises under the urllib handler for a body of which n bytes
\* arrive and x more are expected
UrllibReadErrors(n, x) ==
    {Exc(t, NoPartial, 0, NoExc, NoExc) :
        t \in {"ssl.SSLError", "ssl.SSLError(ETIMEDOUT)", "OSError", "ValueError"}}
    \cup (IF x > 0 THEN {Exc("http.client.IncompleteRead", BytesObj(n), x, NoExc, NoExc)} ELSE {})

\* the same under the requests handler: urllib3 raises its own IncompleteRead, or
\* a ProtocolError holding the http.client one as its argument or as its cause
Urllib3ReadErrors(n, x) ==
    {Exc(t, NoPartial, 0, NoExc, NoExc) :
        t \in {"urllib3.SSLError", "urllib3.ProtocolError", "urllib3.ReadTimeoutError"}}
    \cup (IF x > 0
          THEN {Exc("urllib3.IncompleteRead", IntCount(n), x, NoExc, NoExc),
                Exc("urllib3.ProtocolError", NoPartial, 0, NoExc,
                    ExcLeaf("http.client.IncompleteRead", BytesObj(n), x)),
                Exc("urllib3.ProtocolError", NoPartial, 0,
                    ExcLeaf("http.client.IncompleteRead", BytesObj(n), x), NoExc)}
          ELSE {})

\* the errors read() raises: IncompleteRead(partial=..., expected=...) keeps the
\* two values it is given
ReadRaised(t, p, x) == [error |-> t, partial |-> p, expected |-> x, data |-> 0]
ReadReturned(n) == [error |-> None, partial |-> NoPartial, expected |-> 0, data |-> n]

\* handle_sslerror
handle_sslerror(e) ==
    IF e.type = "ssl.SSLError(ETIMEDOUT)" THEN ReadRaised("TransportError", NoPartial, 0)
    ELSE ReadRaised("SSLError", NoPartial, 0)

\* handle_response_read_exceptions followed by the  raise e  of
\* UrllibResponseAdapter.read
handle_response_read_exceptions(e) ==
    CASE e.type = "http.client.IncompleteRead" ->
             ReadRaised("IncompleteRead", e.partial, e.expected)
      [] e.type \in {"ssl.SSLError", "ssl.SSLError(ETIMEDOUT)",
                     "ssl.SSLCertVerificationError"} -> handle_sslerror(e)
      [] e.type \in {"OSError", "EOFError", "http.client.HTTPException", "zlib.error"} ->
             ReadRaised("TransportError", NoPartial, 0)
      [] OTHER -> ReadRaised(e.type, NoPartial, 0)

IncompleteReadTypes == {"http.client.IncompleteRead", "urllib3.IncompleteRead"}

\* find_original_error(e, err_types): the first of e, e.__cause__ and e.args that
\* is of one of the types, NoExc when there is none
find_original_error(e, err_types) ==
    LET chain == <<ExcLeaf(e.type, e.partial, e.expected), e.cause>> \o e.args
        hits == {i \in 1..Len(chain) : chain[i].type \in err_types}
    IN  IF hits = {} THEN NoExc
        ELSE chain[CHOOSE i \in hits : \A j \in hits : i <= j]

\* handle_urllib3_read_exceptions followed by the  raise TransportError  of
\* RequestsResponse.read
handle_urllib3_read_exceptions(e) ==
    LET ic_read_err == find_original_error(e, IncompleteReadTypes)
    IN  IF ic_read_err.type # "none"
        THEN ReadRaised("IncompleteRead", ic_read_err.partial, ic_read_err.expected)
        ELSE IF e.type = "urllib3.SSLError" THEN ReadRaised("SSLError", NoPartial, 0)
        ELSE ReadRaised("TransportError", NoPartial, 0)

\* response.read(): raw.read returns the body, or raises e
ResponseRead(e) ==
    /\ ex.stage = "body"
    /\ LET n == ex.delivered
           x == ex.declared - ex.delivered
       IN  /\ e \in {NoExc} \cup
                    (IF ex.handler = "urllib" THEN UrllibReadErrors(n, x)
                     ELSE Urllib3ReadErrors(n, x))
           /\ e.type = "none" => x = 0
           /\ ex' = [ex EXCEPT !.stage = "read", !.native = e.type,
                       !.wrapped = (e.type \notin IncompleteReadTypes \cup {"none"}
                                    /\ find_original_error(e, IncompleteReadTypes).type # "none"),
                       !.result = IF e.type = "none" THEN ReadReturned(n)
                                  ELSE IF ex.handler = "urllib"
                                       THEN handle_response_read_exceptions(e)
                                       ELSE handle_urllib3_read_exceptions(e)]
    /\ UNCHANGED <<dirVars, px, rd, ob, openers, wire, resp, threads, header_hooks, session, conn, gz, socks>>

InitRead ==
    /\ DirIdle
    /\ px = PxIdle
    /\ rd = RdIdle
    /\ ob = ObIdle
    /\ openers = NoOpeners
    /\ wire = WireIdle
    /\ resp = RespIdle
    /\ LaterIdle
    /\ ex \in {[stage |-> "body", hops |-> 0, handler |-> h, declared |-> l, delivered |-> n,
                native |-> "none", wrapped |-> FALSE, result |-> ReadReturned(0)] :
                 h \in {"urllib", "requests"}, l \in 1..MaxBody, n \in 0..MaxBody}
    /\ ex.delivered <= ex.declared

NextRead ==
    \E e \in {NoExc} \cup UNION {UrllibReadErrors(n, x) \cup Urllib3ReadErrors(n, x) :
                                    n \in 0..MaxBody, x \in 0..MaxBody} : ResponseRead(e)

SpecRead == InitRead /\ [][NextRead]_vars

\* read() met the library's incomplete-read error, bare or wrapped
ReadIncomplete ==
    /\ ex.stage = "read"
    /\ ex.native \in IncompleteReadTypes \/ ex.wrapped

\* C20 as claimed: when fewer bytes arrive than the Content-Length declares, read()
\* raises IncompleteRead whose partial is the number of bytes received and whose
\* expected is the number still expected, also when the library's incomplete-read
\* error arrives wrapped in another error.
C20_IncompleteReadCounts ==
    ReadIncomplete =>
        /\ ex.result.error = "IncompleteRead"
        /\ ex.result.partial = IntCount(ex.delivered)
        /\ ex.result.expected = ex.declared - ex.delivered

-----------------------------------------------------------------------------
(* One handle call of a backend handler: prepare_request, then the request *)
(* the handler gives to its HTTP library, and what that puts on the wire.  *)

\* SUPPORTED_ENCODINGS of _requests.py and of _urllib.py, joined with ', '
\* (both lists are ['gzip', 'deflate'], and 'br' is appended when brotli imports)
SUPPORTED_ENCODINGS == "gzip, deflate, br"

\* the content codings an Accept-Encoding value advertises
AdvertisedEncodings(v) ==
    CASE v = "gzip, deflate, br" -> {"gzip", "deflate", "br"}
      [] v = "gzip, deflate" -> {"gzip", "deflate"}
      [] v = "identity" -> {"identity"}
      [] OTHER -> {}

\* utils.add_accept_encoding_header(headers, supported_encodings): sets the
\* header when the caller gave none
add_accept_encoding_header(headers, supported_encodings) ==
    IF CIHas(headers, "Accept-Encoding") THEN headers
    ELSE CISet(headers, "Accept-Encoding",
               IF Truthy(supported_encodings) THEN supported_encodings ELSE "identity")

\* RequestsRH._send, lines 314-315: the headers given to session.request
requests_send_headers(req) ==
    add_accept_encoding_header(req.headers, SUPPORTED_ENCODINGS)

\* UrllibRH._real_handle, lines 500-501: headers=dict(request.headers); neither it
\* nor YoutubeDLHandler.http_request adds a header
urllib_request_headers(req) == req.headers

\* http.client sends 'Accept-Encoding: identity' with a request that has no
\* Accept-Encoding header (HTTPConnection.putrequest)
putrequest(headers) ==
    IF CIHas(headers, "Accept-Encoding") THEN headers
    ELSE CISet(headers, "Accept-Encoding", "identity")

\* the handlers UrllibRH._create_opener installs
create_opener(y, proxies, allow_redirects) ==
    [proxies |-> proxies,
     handlers |-> {"YDLProxyHandler", "YoutubeDLHandler", "HTTPCookieProcessor", "DataHandler",
                   "UnknownHandler", "HTTPDefaultErrorHandler", "FTPHandler",
                   "HTTPErrorProcessor",
                   IF allow_redirects THEN "YDLRedirectHandler" ELSE "YDLNoRedirectHandler"}
                  \cup (IF y.enable_file_urls THEN {"FileHandler"} ELSE {})]

\* the key UrllibRH.get_opener caches an opener under
opener_key(req, allow_redirects) ==
    [proxies |-> req.proxies, allow_redirects |-> allow_redirects]

\* UrllibRH.get_opener: dict.setdefault keeps the opener already cached under the key
get_opener(ops, y, req, allow_redirects) ==
    LET key == opener_key(req, allow_redirects)
    IN  IF key \in DOMAIN ops THEN ops
        ELSE DictMerge(ops, [k \in {key} |-> create_opener(y, req.proxies, allow_redirects)])

\* OpenerDirector.open: the handler of the opener that serves a URL scheme
protocol_handler(scheme) ==
    CASE scheme \in {"http", "https"} -> "YoutubeDLHandler"
      [] scheme = "file" -> "FileHandler"
      [] scheme = "ftp" -> "FTPHandler"
      [] scheme = "data" -> "DataHandler"
      [] OTHER -> "UnknownHandler"

\* handler.prepare_request(request), the first half of handle
WirePrepare(h) ==
    /\ wire.stage = "new"
    /\ LET p == prepare_request(h, ydl, request)
       IN  /\ handler_req' = p.req
           /\ wire' = [stage |-> IF p.err # None THEN "rejected" ELSE "prepared",
                       handler |-> h, scheme |-> Lower(p.req.url.scheme),
                       headers |-> EmptyDict, served_by |-> None, err |-> p.err]
    /\ UNCHANGED <<handlers, ydl, request, sender, pc, request0, ranked, idx, handler_reqs,
                   unsupported_errors, unexpected_errors, invoked, outcomes, result,
                   px, rd, ob, ex, openers, resp, threads, header_hooks, session, conn, gz, socks>>

\* the second half of handle: UrllibRH._real_handle up to opener.open, or
\* RequestsRH._send up to session.request
WireSend(allow_redirects) ==
    /\ wire.stage = "prepared"
    /\ LET ops == get_opener(openers, ydl, handler_req, allow_redirects)
           opener == ops[opener_key(handler_req, allow_redirects)]
           served == protocol_handler(wire.scheme) \in opener.handlers
       IN  IF handler_class(wire.handler) = "UrllibRH"
           THEN /\ openers' = ops
                /\ wire' = [wire EXCEPT
                             !.stage = IF served THEN "sent" ELSE "failed",
                             !.headers = putrequest(urllib_request_headers(handler_req)),
                             !.served_by = IF served THEN protocol_handler(wire.scheme)
                                           ELSE "UnknownHandler"]
           ELSE /\ wire' = [wire EXCEPT !.stage = "sent",
                                        !.headers = requests_send_headers(handler_req),
                                        !.served_by = "session.request"]
                /\ UNCHANGED openers
    /\ UNCHANGED <<handlers, ydl, request, sender, pc, request0, ranked, idx, handler_req,
                   handler_reqs, unsupported_errors, unexpected_errors, invoked, outcomes,
                   result, px, rd, ob, ex, resp, threads, header_hooks, session, conn,
                   gz, socks>>

WireRequests ==
    {RequestInit([scheme |-> sch, host |-> "a.x.com"], None, hd, EmptyDict, None, co, None) :
        sch \in {"http", "HTTP", "file", "ws"},
        hd \in {EmptyDict, [k \in {"youtubedl-no-compression"} |-> "1"],
                [k \in {"youtubedl-no-compression"} |-> ""]},
        co \in BOOLEAN}

WireYdls ==
    {[proxies |-> pm,
      http_headers |-> [k \in {"user-agent"} |-> "UA"],
      socket_timeout |-> None,
      enable_file_urls |-> e] :
        pm \in {EmptyDict, [k \in {"http"} |-> "P1"]}, e \in BOOLEAN}

InitWire ==
    /\ handlers = <<>>
    /\ ydl \in WireYdls
    /\ request \in WireRequests
    /\ request0 = request
    /\ sender = "none"
    /\ pc = "idle"
    /\ ranked = <<>>
    /\ idx = 0
    /\ handler_req = None
    /\ handler_reqs = <<>>
    /\ unsupported_errors = <<>>
    /\ unexpected_errors = <<>>
    /\ invoked = <<>>
    /\ outcomes = <<>>
    /\ result = NoResult
    /\ px = PxIdle
    /\ rd = RdIdle
    /\ ob = ObIdle
    /\ ex = ExIdle
    /\ resp = RespIdle
    /\ LaterIdle
    /\ openers = NoOpeners
    /\ wire = [stage |-> "new"]

NextWire ==
    \/ \E h \in HandlerIds \ {"u2"} : WirePrepare(h)
    \/ \E allow_redirects \in BOOLEAN : WireSend(allow_redirects)

SpecWire == InitWire /\ [][NextWire]_vars

WireSent == wire.stage = "sent" /\ wire.scheme \in {"http", "https"}
\* the request opted out of compression: compression=False or a truthy
\* Youtubedl-no-compression header
NoCompression ==
    \/ ~request.compression
    \/ Truthy(CIGet(request.headers, "Youtubedl-no-compression"))

\* C21: a request with compression=False, or one carrying the Youtubedl-no-compression
\* header, goes on the wire advertising no gzip, deflate or br in Accept-Encoding,
\* whichever handler sends it.
C21_NoCompressionIdentity ==
    (WireSent /\ NoCompression) =>
        AdvertisedEncodings(CIGet(wire.headers, "Accept-Encoding"))
            \cap {"gzip", "deflate", "br"} = {}

WirePrepared == wire.stage \in {"prepared", "rejected"}
\* the handler's configuration has no file URLs enabled and the handler is the urllib one
FileDisabled(h) ==
    handler_class(h) = "UrllibRH" /\ Lower(request.url.scheme) = "file" /\ ~ydl.enable_file_urls

\* C22 as claimed: prepare_request fails with UnsupportedRequest exactly when the
\* lower-cased URL scheme is not in the handler's supported-scheme set.
C22_RejectedIffScheme ==
    WirePrepared =>
        (wire.stage = "rejected"
            <=> Lower(request.url.scheme) \notin SUPPORTED_SCHEMES(wire.handler))

\* C22 amended: prepare_request fails with UnsupportedRequest whenever the lower-cased
\* URL scheme is not in the handler's supported-scheme set; with a supported scheme it
\* fails only for a file: URL on the urllib handler while file URLs are not enabled.
\* The call changes no state of the handler: its configuration and its cached openers.
C22_RejectedIffSchemeOrFileDisabled ==
    /\ [](WirePrepared =>
            (wire.stage = "rejected"
                <=> \/ Lower(request.url.scheme) \notin SUPPORTED_SCHEMES(wire.handler)
                    \/ FileDisabled(wire.handler)))
    /\ [][wire.stage = "new" => (ydl' = ydl /\ openers' = openers /\ handlers' = handlers)]_vars

C22_Witness ==
    /\ wire.stage = "rejected"
    /\ request.url.scheme = "ws"
    /\ handler_class(wire.handler) = "UrllibRH"
    /\ handler_req = request

\* C23: while file URLs are not enabled in the configuration, the urllib handler's
\* prepare_request rejects a file: URL with UnsupportedRequest, no opener it holds
\* contains a file handler, and no request is served by a file handler.
C23_FileUrlsOptIn ==
    ~ydl.enable_file_urls =>
        /\ \A k \in DOMAIN openers : "FileHandler" \notin openers[k].handlers
        /\ wire.stage # "new" =>
            /\ wire.served_by # "FileHandler"
            /\ (handler_class(wire.handler) = "UrllibRH" /\ wire.scheme = "file") =>
                /\ wire.stage = "rejected"
                /\ wire.err = "file:// scheme is disabled by default in yt-dlp for security reasons"

C23_Witness ==
    /\ ~ydl.enable_file_urls
    /\ wire.stage = "rejected"
    /\ handler_class(wire.handler) = "UrllibRH"
    /\ request.url.scheme = "file"

\* C24: after any sequence of add_handler, remove_handler and replace_handler calls
\* the handler list contains no handler instance twice, and add_handler with an
\* instance already registered leaves the list and its order unchanged.
C24_NoDuplicateHandlers ==
    /\ Cardinality(Range(handlers)) = Len(handlers)
    /\ \A h \in Range(handlers) : add_handler(handlers, h) = handlers

C24_Witness ==
    /\ Len(handlers) = MaxHandlers
    /\ handler_class(handlers[1]) = handler_class(handlers[MaxHandlers])

\* the handlers of a list that are not of the type of h, in list order
OtherTypes(hs, h) ==
    LET Other(x) == handler_class(x) # handler_class(h)
    IN  SelectSeq(hs, Other)

\* C25: replace_handler(h) removes the registered handlers of h's type and then adds
\* h: afterwards h is the only registered handler of its type, it is the most
\* recently registered handler, and handlers of other types keep their relative order.
C25_ReplaceByType ==
    [][\A h \in HandlerIds :
        ReplaceHandler(h) =>
            /\ {x \in Range(handlers') : handler_class(x) = handler_class(h)} = {h}
            /\ handlers'[Len(handlers')] = h
            /\ OtherTypes(handlers', h) = OtherTypes(handlers, h)]_vars

-----------------------------------------------------------------------------
(* An error raised by a handler's handle, on its way through send to the   *)
(* caller.                                                                 *)

\* an exception object: its class, its handler attribute and its message
ErrorObjects ==
    {[kind |-> k, handler |-> a, msg |-> m] :
        k \in ClassifiedErrors, a \in {None} \cup HandlerIds, m \in {"m1", "m2"}}

\* the wrapper handle_request_errors puts around a handler method: it fills in the
\* handler of an UnsupportedRequest that carries none, and re-raises
request_errors_wrapper(e, h) ==
    IF e.kind = "UnsupportedRequest" /\ e.handler = None
    THEN [e EXCEPT !.handler = h]
    ELSE e

\* RequestDirector.send, lines 123-125: a RequestError is re-raised as caught
director_reraise(e, h) == e

\* RequestHandlerBroker.send, lines 380-382: e.handler = handler, then raise
broker_reraise(e, h) == [e EXCEPT !.handler = h]

\* the except clause of send catches the error and raises it on to the caller
Propagate ==
    /\ ex.stage = "raised"
    /\ ex' = [ex EXCEPT !.stage = "propagated",
                        !.caught = IF ex.sender = "director"
                                   THEN director_reraise(request_errors_wrapper(ex.error, ex.handler),
                                                         ex.handler)
                                   ELSE broker_reraise(request_errors_wrapper(ex.error, ex.handler),
                                                       ex.handler)]
    /\ UNCHANGED <<dirVars, px, rd, ob, openers, wire, resp, threads, header_hooks, session, conn, gz, socks>>

InitPropagate ==
    /\ DirIdle
    /\ px = PxIdle
    /\ rd = RdIdle
    /\ ob = ObIdle
    /\ openers = NoOpeners
    /\ wire = WireIdle
    /\ resp = RespIdle
    /\ LaterIdle
    /\ ex \in {[stage |-> "raised", hops |-> 0, sender |-> s, handler |-> h, error |-> e,
                caught |-> e] :
                 s \in {"director", "broker"}, h \in HandlerIds, e \in ErrorObjects}

NextPropagate == Propagate

SpecPropagate == InitPropagate /\ [][NextPropagate]_vars

\* C28: a classified error that send lets propagate reaches the caller unmodified,
\* except that its handler is set to the failing handler when the error carries none;
\* a handler already set on the error is not overwritten.
C28_HandlerAttachedOnce ==
    ex.stage = "propagated" =>
        /\ ex.caught.kind = ex.error.kind
        /\ ex.caught.msg = ex.error.msg
        /\ ex.caught.handler = IF ex.error.handler = None THEN ex.handler ELSE ex.error.handler

-----------------------------------------------------------------------------
(* A Response (networking/common.py) and the raw stream it wraps.          *)

\* the most close() calls on one Response the model follows
MaxCloses == 3

\* HTTPStatus(status).phrase, for the status codes of the model; None where
\* HTTPStatus raises ValueError
status_phrase(status) ==
    CASE status = 200 -> "OK"
      [] status = 204 -> "No Content"
      [] status = 302 -> "Found"
      [] status = 404 -> "Not Found"
      [] status = 500 -> "Internal Server Error"
      [] OTHER -> None

\* Response.__init__
ResponseInit(raw, url, status, reason) ==
    [stage |-> "open", raw |-> raw, url |-> url, status |-> status,
     reason |-> IF Truthy(reason) THEN reason ELSE status_phrase(status),
     closed |-> FALSE, closes |-> 0]

\* Response.read(amt): self.raw.read(amt)
ResponseReadAmt(amt) ==
    /\ resp.stage = "open"
    /\ ~resp.raw.closed
    /\ resp.raw.pos < resp.raw.size
    /\ resp' = [resp EXCEPT !.raw.pos = IF resp.raw.pos + amt > resp.raw.size
                                        THEN resp.raw.size ELSE resp.raw.pos + amt]
    /\ UNCHANGED <<dirVars, px, rd, ob, ex, openers, wire, threads, header_hooks, session, conn, gz, socks>>

\* Response.close: self.raw.close(), then io.IOBase.close, which sets closed
ResponseClose ==
    /\ resp.stage = "open"
    /\ resp.closes < MaxCloses
    /\ resp' = [resp EXCEPT !.raw.closed = TRUE,
                            !.raw.close_calls = resp.raw.close_calls + 1,
                            !.closed = TRUE,
                            !.closes = resp.closes + 1]
    /\ UNCHANGED <<dirVars, px, rd, ob, ex, openers, wire, threads, header_hooks, session, conn, gz, socks>>

InitResponse ==
    /\ DirIdle
    /\ px = PxIdle
    /\ rd = RdIdle
    /\ ob = ObIdle
    /\ ex = ExIdle
    /\ openers = NoOpeners
    /\ wire = WireIdle
    /\ LaterIdle
    /\ resp \in {ResponseInit([pos |-> 0, size |-> n, closed |-> FALSE, close_calls |-> 0],
                              "http://x.com/a", s, r) :
                   n \in 0..MaxBody, s \in {200, 404, 599}, r \in {None, "Custom"}}

NextResponse ==
    \/ \E amt \in 1..MaxBody : ResponseReadAmt(amt)
    \/ ResponseClose

SpecResponse == InitResponse /\ [][NextResponse]_vars

\* C27: over any sequence of close() calls on the same Response, raw.close() is
\* invoked one time.
C27_RawClosedOnce ==
    (resp.stage = "open" /\ resp.closes >= 1) => resp.raw.close_calls = 1

\* the headers of a request that describe its payload
PayloadHeaders(hd) == {k \in DOMAIN hd : Lower(k) \in {"content-length", "content-type"}}

\* C30: the request re-issued after a 301/302/303/307/308 has lost the payload and
\* the Content-Length and Content-Type headers exactly when the redirect changed the
\* method; with the method unchanged the payload and all headers are carried over.
C30_PayloadDroppedWithMethod ==
    Redirected =>
        IF rd.method # rd.old_method
        THEN /\ rd.data = None
             /\ PayloadHeaders(rd.headers) = {}
             /\ \A k \in DOMAIN rd.old_headers \ PayloadHeaders(rd.old_headers) :
                   k \in DOMAIN rd.headers /\ rd.headers[k] = rd.old_headers[k]
        ELSE /\ rd.data = rd.old_data
             /\ rd.headers = rd.old_headers

\* the three ways a send on a director with handlers may end
SendOutcomes ==
    {o \in {"response", "classified", "aggregated"} :
        \/ o = "response" /\ result.kind = "response"
        \/ o = "classified" /\ result.kind = "raised" /\ result.error \in ClassifiedErrors
        \/ o = "aggregated" /\ result.kind = "raised" /\ result.error = "RequestError"
                            /\ result.msg = "Unable to handle request"}

-----------------------------------------------------------------------------
(* UrllibRH.get_opener called by several threads on one handler instance.  *)
(* Python evaluates the arguments of setdefault first, so every call runs  *)
(* _create_opener; dict.setdefault itself is one atomic step.              *)

Threads == {"t1", "t2"}
\* get_opener calls one thread makes
MaxCalls == 2

\* the (proxies, allow_redirects) pairs of the requests the threads send
OpenerRequests ==
    {[proxies |-> p, allow_redirects |-> a] :
        p \in {EmptyDict, [k \in {"http"} |-> "P1"]}, a \in BOOLEAN}

\* a setdefault that stores and returns the new value whatever the dict holds: what
\* 'if key not in d: d[key] = new' amounts to for a thread that lost the race
setdefault_overwrites(d, key, new) ==
    [dict |-> DictMerge(d, [k \in {key} |-> new]), value |-> new]

\* dict.setdefault(key, new): the value the dict holds under key, new stored first
\* when it holds none
setdefault(d, key, new) ==
    IF key \in DOMAIN d
    THEN [dict |-> d, value |-> d[key]]
    ELSE [dict |-> DictMerge(d, [k \in {key} |-> new]), value |-> new]

\* the argument of setdefault in get_opener: self._create_opener(...) builds a new
\* opener object, the made-th one of this handler instance
GetOpenerCreate(t, r) ==
    /\ threads.stage = "run"
    /\ threads.th[t].pc = "idle"
    /\ threads.th[t].calls < MaxCalls
    /\ threads' = [threads EXCEPT
                     !.made = threads.made + 1,
                     !.th[t] = [threads.th[t] EXCEPT
                                  !.pc = "created",
                                  !.key = opener_key(r, r.allow_redirects),
                                  !.mine = [id |-> threads.made + 1,
                                            opener |-> create_opener(ydl, r.proxies,
                                                                     r.allow_redirects)]]]
    /\ UNCHANGED <<dirVars, px, rd, ob, ex, openers, wire, resp, header_hooks, session, conn,
                   gz, socks>>

\* the setdefault call of get_opener, and its return
GetOpenerSetdefault(t) ==
    /\ threads.stage = "run"
    /\ threads.th[t].pc = "created"
    /\ LET sd == setdefault(openers, threads.th[t].key, threads.th[t].mine)
       IN  /\ openers' = sd.dict
           /\ threads' = [threads EXCEPT
                            !.returned = threads.returned \cup
                                             {<<threads.th[t].key, sd.value.id>>},
                            !.th[t] = [threads.th[t] EXCEPT !.pc = "idle",
                                                           !.got = sd.value.id,
                                                           !.calls = threads.th[t].calls + 1]]
    /\ UNCHANGED <<dirVars, px, rd, ob, ex, wire, resp, header_hooks, session, conn, gz, socks>>

InitOpeners ==
    /\ DirIdle
    /\ px = PxIdle
    /\ rd = RdIdle
    /\ ob = ObIdle
    /\ ex = ExIdle
    /\ wire = WireIdle
    /\ resp = RespIdle
    /\ header_hooks = NoHooks
    /\ session = SessionIdle
    /\ conn = ConnIdle
    /\ gz = GzIdle
    /\ socks = SocksIdle
    /\ openers = NoOpeners
    /\ threads = [stage |-> "run", made |-> 0, returned |-> {},
                  th |-> [t \in Threads |->
                            [pc |-> "idle", key |-> None, mine |-> None, got |-> 0,
                             calls |-> 0]]]

NextOpeners ==
    \/ \E t \in Threads, r \in OpenerRequests : GetOpenerCreate(t, r)
    \/ \E t \in Threads : GetOpenerSetdefault(t)

SpecOpeners == InitOpeners /\ [][NextOpeners]_vars

OpenersQuiet == threads.stage = "run" /\ \A t \in Threads : threads.th[t].pc = "idle"

\* C31: get_opener constructs a new opener only when none is cached for the request's
\* key (so as many openers were ever made as the cache holds), returns the same
\* opener for every request with an equal key, and different openers for different
\* keys.
C31_OneOpenerPerKey ==
    /\ OpenersQuiet => threads.made = Cardinality(DOMAIN openers)
    /\ \A a, b \in threads.returned : (a[1] = b[1]) <=> (a[2] = b[2])

\* C32: under every interleaving of the threads' get_opener calls, all calls with the
\* same key receive the same opener object, the one the cache holds under the key.
C32_SameOpenerUnderRaces ==
    \A a \in threads.returned :
        /\ a[1] \in DOMAIN openers
        /\ openers[a[1]].id = a[2]
        /\ \A b \in threads.returned : a[1] = b[1] => a[2] = b[2]

\* a thread made its opener first, lost the race and was given the other thread's
C32_Witness ==
    /\ OpenersQuiet
    /\ \E t, u \in Threads :
          /\ t # u
          /\ threads.th[t].got > 0 /\ threads.th[u].got > 0
          /\ threads.th[t].key = threads.th[u].key
          /\ threads.th[t].got = threads.th[u].got
          /\ threads.th[t].got > threads.th[t].mine.id

-----------------------------------------------------------------------------
(* The except clauses of UrllibRH._real_handle and of RequestsRH._send:     *)
(* the exception the HTTP library raised becomes an error of the taxonomy.  *)
(* A native exception is a record of its type, its message, its partial    *)
(* and expected attributes, its reason (URLError), and for an HTTPError the *)
(* type and status of its fp; __cause__ and args are as in Exc.             *)

TxNone == [type |-> "none", msg |-> "", partial |-> NoPartial, expected |-> 0]
TxLeaf(t, m) == [type |-> t, msg |-> m, partial |-> NoPartial, expected |-> 0]
Native(t, m, reason, fp, status, cause, arg) ==
    [type |-> t, msg |-> m, partial |-> NoPartial, expected |-> 0, reason |-> reason,
     fp |-> fp, status |-> status, cause |-> cause, args |-> <<arg>>]

\* messages in which  'tunnel connection failed' in str(cause).lower()  holds, in
\* which  'redirect error' in str(e)  holds, in which  'CERTIFICATE_VERIFY_FAILED'
\* in str(e)  holds
TunnelMessages == {"Tunnel connection failed: 407 Proxy Authentication Required"}
RedirectErrorMessages == {"HTTP Error 302: The HTTP server returned a redirect error that would lead to an infinite loop."}
CertMessages == {"[SSL: CERTIFICATE_VERIFY_FAILED] certificate verify failed"}

\* the subclasses of ssl.SSLError the model tells apart
SslErrorTypes == {"ssl.SSLError", "ssl.SSLError(ETIMEDOUT)", "ssl.SSLCertVerificationError"}

\* what URLError.reason holds when do_open wraps the OSError of h.request, or when
\* a handler raises URLError with a text
UrlErrorReasons ==
    {TxLeaf("OSError", m) : m \in TunnelMessages \cup {"[Errno 111] Connection refused"}}
    \cup {TxLeaf("SocksProxyError", "general SOCKS server failure")}
    \cup {TxLeaf("ssl.SSLError", "[SSL: WRONG_VERSION_NUMBER] wrong version number")}
    \cup {TxLeaf("ssl.SSLError(ETIMEDOUT)", "timed out")}
    \cup {TxLeaf("ssl.SSLCertVerificationError", m) : m \in CertMessages}
    \cup {TxLeaf("str", "unknown url type: foo")}

\* what opener.open raises: HTTPError out of the error handlers of the opener
\* (its fp is the response), URLError, and what getresponse and the response
\* processors raise unwrapped
UrllibOpenErrors ==
    {Native("urllib.error.HTTPError", m, TxNone, fp, s, NoExc, NoExc) :
        m \in RedirectErrorMessages \cup {"HTTP Error"},
        fp \in {"HTTPResponse", "addinfourl"},
        s \in {c \in StatusCodes : ~Is2xx(c)}}
    \cup {Native("urllib.error.URLError", r.msg, r, None, 0, NoExc, NoExc) : r \in UrlErrorReasons}
    \cup {Native(t, "", TxNone, None, 0, NoExc, NoExc) :
            t \in {"ssl.SSLError", "ssl.SSLError(ETIMEDOUT)", "OSError", "EOFError",
                   "http.client.HTTPException", "zlib.error"}}
    \cup {Native("ssl.SSLCertVerificationError", m, TxNone, None, 0, NoExc, NoExc) :
            m \in CertMessages}
    \cup {[Native("http.client.IncompleteRead", "", TxNone, None, 0, NoExc, NoExc)
             EXCEPT !.partial = BytesObj(n), !.expected = x] : n \in 0..1, x \in 1..2}

\* what session.request raises
RequestsSendErrors ==
    {Native("requests.SSLError", m, TxNone, None, 0, NoExc, NoExc) :
        m \in CertMessages \cup {"[SSL: WRONG_VERSION_NUMBER] wrong version number"}}
    \cup {Native("requests.TooManyRedirects", "", TxNone, "Response", s, NoExc, NoExc) :
            s \in RedirectCodes}
    \cup {Native(t, "", TxNone, None, 0, NoExc, a) :
            t \in {"requests.ConnectionError", "requests.Timeout"},
            a \in {NoExc} \cup Urllib3ReadErrors(1, 1)}
    \cup {Native(t, "", TxNone, None, 0, NoExc, NoExc) :
            t \in {"requests.ProxyError", "requests.InvalidURL"}}
    \cup {Native(e.type, "", TxNone, None, 0, e.cause, e.args[1]) : e \in Urllib3ReadErrors(1, 1)}

\* the error a handler raises: its kind, the status and redirect_loop of an
\* HTTPError, the partial and expected of an IncompleteRead
TxRaised(r) ==
    [error |-> r.error, partial |-> r.partial, expected |-> r.expected, status |-> 0,
     redirect_loop |-> FALSE]
TxHTTPError(status, loop) ==
    [error |-> "HTTPError", partial |-> NoPartial, expected |-> 0, status |-> status,
     redirect_loop |-> loop]

\* _real_handle that takes a refused tunnel or a SOCKS failure for any other
\* URLError
urllib_real_handle_except_no_proxy_check(e) ==
    CASE e.type = "urllib.error.HTTPError" ->
             IF e.fp \in {"HTTPResponse", "addinfourl"}
             THEN TxHTTPError(e.status, e.msg \in RedirectErrorMessages)
             ELSE TxRaised(ReadRaised(e.type, NoPartial, 0))
      [] e.type = "urllib.error.URLError" ->
             LET cause == e.reason
                 r == handle_response_read_exceptions(cause)
             IN  IF r.error # cause.type THEN TxRaised(r)
                 ELSE TxRaised(ReadRaised("TransportError", NoPartial, 0))
      [] OTHER -> TxRaised(handle_response_read_exceptions(e))

\* the except clauses of UrllibRH._real_handle, given the exception e that
\* opener.open raised: an HTTPError whose fp is a response becomes HTTPError, a
\* URLError is classified by its reason, anything else by
\* handle_response_read_exceptions, which leaves what it does not know to the
\* bare  raise
urllib_real_handle_except(e) ==
    CASE e.type = "urllib.error.HTTPError" ->
             IF e.fp \in {"HTTPResponse", "addinfourl"}
             THEN TxHTTPError(e.status, e.msg \in RedirectErrorMessages)
             ELSE TxRaised(ReadRaised(e.type, NoPartial, 0))
      [] e.type = "urllib.error.URLError" ->
             LET cause == e.reason
                 r == handle_response_read_exceptions(cause)
             IN  IF cause.msg \in TunnelMessages \/ cause.type = "SocksProxyError"
                 THEN TxRaised(ReadRaised("ProxyError", NoPartial, 0))
                 ELSE IF r.error # cause.type THEN TxRaised(r)
                 ELSE TxRaised(ReadRaised("TransportError", NoPartial, 0))
      [] OTHER -> TxRaised(handle_response_read_exceptions(e))

Urllib3HTTPErrorTypes ==
    {"urllib3.SSLError", "urllib3.ProtocolError", "urllib3.ReadTimeoutError",
     "urllib3.IncompleteRead"}

\* the except clauses of RequestsRH._send and the status test after them, given
\* the exception e that session.request raised
requests_send_except(e) ==
    CASE e.type = "requests.TooManyRedirects" ->
             IF ~Is2xx(e.status) THEN TxHTTPError(e.status, TRUE)
             ELSE TxRaised(ReadRaised("none", NoPartial, 0))
      [] e.type = "requests.SSLError" ->
             IF e.msg \in CertMessages
             THEN TxRaised(ReadRaised("CertificateVerifyError", NoPartial, 0))
             ELSE TxRaised(ReadRaised("SSLError", NoPartial, 0))
      [] e.type = "requests.ProxyError" -> TxRaised(ReadRaised("ProxyError", NoPartial, 0))
      [] e.type \in {"requests.ConnectionError", "requests.Timeout"} ->
             LET orig == find_original_error(e, Urllib3HTTPErrorTypes)
             IN  IF orig.type = "none" THEN TxRaised(ReadRaised("TransportError", NoPartial, 0))
                 ELSE TxRaised(handle_urllib3_read_exceptions(orig))
      [] e.type \in Urllib3HTTPErrorTypes -> TxRaised(handle_urllib3_read_exceptions(e))
      [] OTHER -> TxRaised(ReadRaised("RequestError", NoPartial, 0))

\* the handler's request fails in the library and the handler raises in turn
Translate ==
    /\ ex.stage = "open"
    /\ ex' = [ex EXCEPT !.stage = "translated",
                        !.raised = IF ex.handler = "urllib"
                                   THEN urllib_real_handle_except(ex.native)
                                   ELSE requests_send_except(ex.native)]
    /\ UNCHANGED <<dirVars, px, rd, ob, openers, wire, resp, threads, header_hooks, session, conn, gz, socks>>

InitTranslate ==
    /\ DirIdle
    /\ px = PxIdle
    /\ rd = RdIdle
    /\ ob = ObIdle
    /\ openers = NoOpeners
    /\ wire = WireIdle
    /\ resp = RespIdle
    /\ LaterIdle
    /\ ex \in {[stage |-> "open", handler |-> "urllib", native |-> e,
                raised |-> TxRaised(ReadRaised("none", NoPartial, 0))] : e \in UrllibOpenErrors}
          \cup {[stage |-> "open", handler |-> "requests", native |-> e,
                 raised |-> TxRaised(ReadRaised("none", NoPartial, 0))] : e \in RequestsSendErrors}

NextTranslate == Translate

SpecTranslate == InitTranslate /\ [][NextTranslate]_vars

Translated == ex.stage = "translated"
UrllibTranslated == Translated /\ ex.handler = "urllib"
NativeReason == IF ex.native.type = "urllib.error.URLError" THEN ex.native.reason ELSE ex.native

NativeIsCertFailure ==
    \/ NativeReason.type = "ssl.SSLCertVerificationError"
    \/ ex.native.type = "requests.SSLError" /\ ex.native.msg \in CertMessages
NativeIsOtherTls ==
    /\ NativeReason.type \in {"ssl.SSLError", "requests.SSLError", "urllib3.SSLError"}
    /\ ~NativeIsCertFailure

\* C34: under every backend a certificate validation failure is raised as
\* CertificateVerifyError and any other TLS failure as plain SSLError: no
\* certificate failure comes out as a generic SSLError and no other TLS failure as
\* CertificateVerifyError.
C34_CertFailuresDistinguished ==
    Translated =>
        /\ NativeIsCertFailure => ex.raised.error = "CertificateVerifyError"
        /\ NativeIsOtherTls => ex.raised.error = "SSLError"
        /\ ex.raised.error = "CertificateVerifyError" => NativeIsCertFailure

-----------------------------------------------------------------------------
(* YoutubeDLHandler.http_response on a response with Content-encoding:      *)
(* gzip.  The content is a valid gzip stream of a payload followed by k     *)
(* bytes that are no gzip data (nor zero padding).  GzipFile.read returns   *)
(* the payload when nothing follows the stream, raises OSError (BadGzipFile)*)
(* when something does, and EOFError when the stream itself is cut short.   *)

\* the stop of  range(1, 1024)
GzipRetryStop == 1024
GzPayloads == {"payload1", "payload2"}
\* trailing lengths around the ends of the range
GarbageLengths == {0, 1, 2, 3, GzipRetryStop - 2, GzipRetryStop - 1, GzipRetryStop,
                   GzipRetryStop + 1}

GzOk(p) == [error |-> None, at |-> 0, data |-> p]
GzError(t, i) == [error |-> t, at |-> i, data |-> None]

\* content[:-i] that drops the last byte whatever i is
slice_end_last_byte_only(k, i) == IF i = 0 THEN k ELSE k - 1

\* the bytes of content[:-i] (of content when i = 0) counted from the end of the
\* gzip stream: negative when the slice ends inside the stream
slice_end(k, i) == k - i

\* gzip.GzipFile(fileobj=io.BytesIO(content[:-i])).read() for the stream of
\* payload p followed by k more bytes
gzip_read(p, k, i) ==
    CASE slice_end(k, i) = 0 -> GzOk(p)
      [] slice_end(k, i) > 0 -> GzError("OSError", i)
      [] OTHER -> GzError("EOFError", i)

\* lines 211-216: the first gz.read() on the whole content
GzFirstRead ==
    /\ gz.stage = "response"
    /\ LET r == gzip_read(gz.payload, gz.k, 0)
       IN  gz' = IF r.error = "OSError"
                 THEN [gz EXCEPT !.stage = "retry", !.i = 1, !.original_ioerror = r]
                 ELSE [gz EXCEPT !.stage = "done", !.result = r]
    /\ UNCHANGED <<dirVars, px, rd, ob, ex, openers, wire, resp, threads, header_hooks, session, conn, socks>>

\* lines 218-224: one pass of  for i in range(1, 1024)
GzRetry ==
    /\ gz.stage = "retry"
    /\ gz.i < GzipRetryStop
    /\ LET r == gzip_read(gz.payload, gz.k, gz.i)
       IN  gz' = IF r.error = "OSError"
                 THEN [gz EXCEPT !.i = gz.i + 1, !.attempts = gz.attempts + 1]
                 ELSE [gz EXCEPT !.stage = "done", !.attempts = gz.attempts + 1,
                                 !.result = r]
    /\ UNCHANGED <<dirVars, px, rd, ob, ex, openers, wire, resp, threads, header_hooks, session, conn, socks>>

\* lines 225-226: the else of the for loop
GzGiveUp ==
    /\ gz.stage = "retry"
    /\ gz.i = GzipRetryStop
    /\ gz' = [gz EXCEPT !.stage = "done", !.result = gz.original_ioerror]
    /\ UNCHANGED <<dirVars, px, rd, ob, ex, openers, wire, resp, threads, header_hooks, session, conn, socks>>

InitGzip ==
    /\ DirIdle
    /\ px = PxIdle
    /\ rd = RdIdle
    /\ ob = ObIdle
    /\ ex = ExIdle
    /\ openers = NoOpeners
    /\ wire = WireIdle
    /\ resp = RespIdle
    /\ threads = NoThreads
    /\ header_hooks = NoHooks
    /\ session = SessionIdle
    /\ conn = ConnIdle
    /\ socks = SocksIdle
    /\ gz \in {[stage |-> "response", payload |-> p, k |-> k, i |-> 0, attempts |-> 0,
                original_ioerror |-> GzOk(None), result |-> GzOk(None)] :
                 p \in GzPayloads, k \in GarbageLengths}

NextGzip ==
    \/ GzFirstRead
    \/ GzRetry
    \/ GzGiveUp

SpecGzip == InitGzip /\ [][NextGzip]_vars

GzDone == gz.stage = "done"

\* C35 as claimed: a valid gzip stream followed by k bytes of garbage is decoded to
\* exactly its payload whenever k is at most 1024.
C35_GarbageUpTo1024 ==
    (GzDone /\ gz.k <= 1024) => gz.result = GzOk(gz.payload)

\* C35, amended: a valid gzip stream followed by k bytes of garbage is decoded to
\* exactly its payload whenever k is at most 1023; attempt i removes i trailing
\* bytes, the loop stops at the first success (after k attempts), never makes more
\* than 1023 attempts, and raises the error of the first read when none succeeds.
C35_GarbageUpTo1023 ==
    /\ gz.stage \in {"retry", "done"} => gz.attempts <= 1023
    /\ gz.stage = "retry" => gz.i = gz.attempts + 1
    /\ GzDone =>
        /\ gz.k <= 1023 => gz.result = GzOk(gz.payload) /\ gz.attempts = gz.k
        /\ gz.k > 1023 => gz.result = GzError("OSError", 0) /\ gz.attempts = 1023

C35_Witness ==
    /\ GzDone
    /\ gz.k = 1023
    /\ gz.attempts = 1023
    /\ gz.result = GzOk(gz.payload)

-----------------------------------------------------------------------------
(* The Session of the earlier network package (network/common.py): a chain  *)
(* of BackendHandler objects linked by _next_handler, and urlopen, which    *)
(* builds the proxy map of a request and hands the request to the chain.    *)
(* A request is a urllib.request.Request: its headers are a plain dict      *)
(* whose keys add_header has capitalized.  The responses carry no cookies.  *)

\* the most handlers one Session is given
MaxChain == 3

\* the handler objects: BackendHandler subclasses that declare their protocols
\* and whose _real_handle returns a response or nothing, MyBackendHandler (which
\* inherits the _real_handle that returns nothing), UnsupportedBackendHandler
BackendObjects ==
    {[id |-> "a", class |-> "BackendHandler", protocols |-> {"http", "https"}, answers |-> TRUE],
     [id |-> "b", class |-> "BackendHandler", protocols |-> {"ftp"}, answers |-> TRUE],
     [id |-> "c", class |-> "BackendHandler", protocols |-> {"http", "ftp"}, answers |-> FALSE],
     [id |-> "m", class |-> "MyBackendHandler", protocols |-> {"http", "https"}, answers |-> FALSE],
     [id |-> "u", class |-> "UnsupportedBackendHandler", protocols |-> {}, answers |-> FALSE]}
BackendIds == {h.id : h \in BackendObjects}
Backend(id) == CHOOSE h \in BackendObjects : h.id = id

SessionRequests ==
    {[scheme |-> s, headers |-> hd] :
        s \in {"http", "ftp"},
        hd \in {EmptyDict, [k \in {"User-agent"} |-> "UA"],
                [k \in {"Ytdl-request-proxy"} |-> "H1"],
                [k \in {"Ytdl-request-proxy", "User-agent"} |->
                    IF k = "User-agent" THEN "UA" ELSE "H2"]}}
\* params.get('proxy')
OptsProxies == {None, "P1"}
\* urllib.request.getproxies()
EnvProxies == {EmptyDict, [k \in {"http"} |-> "E1"], [k \in {"http", "https"} |-> "E2"]}

\* Session._make_proxy_map: the proxy map and the headers the request is left with
make_proxy_map(params_proxy, req, env) ==
    LET req_proxy == DictGet(req.headers, "Ytdl-request-proxy")
        headers == IF req_proxy # None THEN DictDel(req.headers, "Ytdl-request-proxy")
                   ELSE req.headers
        opts_proxy == params_proxy
        proxy == IF ~Truthy(req_proxy) /\ Truthy(opts_proxy) THEN opts_proxy ELSE req_proxy
        proxies == env
    IN  [headers |-> headers,
         proxies |-> IF Truthy(proxy)
                     THEN [k \in {"http", "https"} |-> opts_proxy]
                     ELSE IF "http" \in DOMAIN proxies /\ "https" \notin DOMAIN proxies
                     THEN DictMerge(proxies, [k \in {"https"} |-> proxies["http"]])
                     ELSE proxies]

\* Session.add_handler: the chain head and the _next_handler links afterwards;
\* set_next returns the handler it was given
session_add_handler(s, h) ==
    IF s.head = None
    THEN [s EXCEPT !.head = h, !.added = Append(s.added, h)]
    ELSE [s EXCEPT !.next = [s.next EXCEPT ![s.head] = h], !.head = h,
                   !.added = Append(s.added, h)]

\* can_handle of the three classes: "raise", TRUE or FALSE
backend_can_handle(h, req, proxies) ==
    CASE Backend(h).class = "UnsupportedBackendHandler" -> "raise"
      [] Backend(h).class = "MyBackendHandler" /\ DOMAIN proxies # {} -> "no"
      [] OTHER -> IF req.scheme \in Backend(h).protocols THEN "yes" ELSE "no"

\* BackendHandler.handle: the response (named after the handler that made it),
\* the exception that left, and the handlers consulted in order
RECURSIVE backend_handle(_, _, _, _)
backend_handle(h, next, req, proxies) ==
    LET can == backend_can_handle(h, req, proxies)
        res == IF can = "yes" /\ Backend(h).answers THEN h ELSE None
    IN  IF can = "raise" THEN [res |-> None, error |-> "Exception", consulted |-> <<h>>]
        ELSE IF res # None THEN [res |-> res, error |-> None, consulted |-> <<h>>]
        ELSE IF next[h] # None
        THEN LET rest == backend_handle(next[h], next, req, proxies)
             IN  [rest EXCEPT !.consulted = <<h>> \o rest.consulted]
        ELSE [res |-> None, error |-> None, consulted |-> <<h>>]

\* the record of the last urlopen before any was made
NoSessionRequest == [scheme |-> "http", headers |-> EmptyDict]
NoSessionOutcome == [res |-> None, error |-> None, consulted |-> <<>>]

\* session.add_handler(handler) with a handler object constructed for the call; the
\* record of the last urlopen is of the chain as it was and is dropped
SessionAddHandler(h) ==
    /\ session.stage = "build"
    /\ Len(session.added) < MaxChain
    /\ \A i \in 1..Len(session.added) : session.added[i] # h
    /\ session' = [session_add_handler(session, h) EXCEPT
                       !.req = NoSessionRequest, !.sent = NoSessionRequest,
                       !.proxies = EmptyDict, !.out = NoSessionOutcome]
    /\ UNCHANGED <<dirVars, px, rd, ob, ex, openers, wire, resp, threads, header_hooks, conn, gz, socks>>

\* session.urlopen(request) under the environment's proxy settings env; the
\* attribute  self._handler_chain.handle  is looked up before the arguments of the
\* call are evaluated
SessionUrlopen(req, env) ==
    /\ session.stage = "build"
    /\ LET pm == make_proxy_map(session.params_proxy, req, env)
           sent == [req EXCEPT !.headers = pm.headers]
       IN  session' =
             IF session.head = None
             THEN [session EXCEPT !.stage = "opened", !.req = req, !.sent = req,
                                  !.out = [res |-> None, error |-> "AttributeError",
                                           consulted |-> <<>>]]
             ELSE [session EXCEPT !.stage = "opened", !.req = req, !.sent = sent,
                                  !.proxies = pm.proxies,
                                  !.out = backend_handle(session.head, session.next, sent,
                                                         pm.proxies)]
    /\ UNCHANGED <<dirVars, px, rd, ob, ex, openers, wire, resp, threads, header_hooks, conn, gz, socks>>

\* urlopen has returned or raised: the caller has the outcome
SessionReturn ==
    /\ session.stage = "opened"
    /\ session' = [session EXCEPT !.stage = "build"]
    /\ UNCHANGED <<dirVars, px, rd, ob, ex, openers, wire, resp, threads, header_hooks, conn, gz, socks>>

InitSession ==
    /\ DirIdle
    /\ px = PxIdle
    /\ rd = RdIdle
    /\ ob = ObIdle
    /\ ex = ExIdle
    /\ openers = NoOpeners
    /\ wire = WireIdle
    /\ resp = RespIdle
    /\ threads = NoThreads
    /\ header_hooks = NoHooks
    /\ conn = ConnIdle
    /\ gz = GzIdle
    /\ socks = SocksIdle
    /\ session \in {[stage |-> "build", head |-> None, next |-> [h \in BackendIds |-> None],
                     added |-> <<>>, params_proxy |-> p,
                     req |-> NoSessionRequest, sent |-> NoSessionRequest,
                     proxies |-> EmptyDict, out |-> NoSessionOutcome] :
                      p \in OptsProxies}

NextSession ==
    \/ \E h \in BackendIds : SessionAddHandler(h)
    \/ \E req \in SessionRequests, env \in EnvProxies : SessionUrlopen(req, env)
    \/ SessionReturn

SpecSession == InitSession /\ [][NextSession]_vars

SessionOpened == session.stage = "opened" /\ session.head # None

\* C36: a Ytdl-request-proxy header on the request wins over the configured proxy:
\* its value is the proxy map's entry for both http and https and the header is
\* gone from the request handed on; the configured proxy is used only when the
\* request carries no such header.
C36_HeaderProxyWins ==
    SessionOpened =>
        LET req_proxy == DictGet(session.req.headers, "Ytdl-request-proxy")
        IN  /\ "Ytdl-request-proxy" \notin DOMAIN session.sent.headers
            /\ req_proxy # None =>
                   session.proxies = [k \in {"http", "https"} |-> req_proxy]
            /\ (req_proxy = None /\ session.params_proxy # None) =>
                   session.proxies = [k \in {"http", "https"} |-> session.params_proxy]

RECURSIVE ChainFrom(_, _, _)
ChainFrom(h, next, fuel) ==
    IF h = None \/ fuel = 0 THEN {} ELSE {h} \cup ChainFrom(next[h], next, fuel - 1)

\* C37: every handler added to a session stays reachable from the head of its
\* chain; urlopen consults the first handler added first and a later one only
\* after the earlier ones declined or returned nothing, so that a request only the
\* last handler can handle is still served.
C37_ChainKeepsHandlers ==
    /\ \A i \in 1..Len(session.added) :
           session.added[i] \in ChainFrom(session.head, session.next, MaxChain + 1)
    /\ (SessionOpened /\ session.added # <<>>) =>
           /\ session.out.consulted # <<>>
           /\ session.out.consulted[1] = session.added[1]
           /\ \A i \in 1..Len(session.out.consulted) :
                  session.out.consulted[i] = session.added[i]

-----------------------------------------------------------------------------
(* The module-level header_hooks table of networking/_urllib.py and the     *)
(* requests that register in it: UrllibRH._real_handle stores the request's *)
(* 'headers' hook under a fresh uuid before it opens the URL.  The table is *)
(* shared by every handler instance and every thread.                       *)

\* the most requests the model follows
MaxRequests == 3
\* request.hooks.get('headers')
HeaderHooks == {None, "hook1", "hook2"}

\* lines 503-507: the hook is registered under a new id, the opener is about to
\* be called
RealHandleRegister(t, headers_hook) ==
    /\ threads.th[t].pc = "idle"
    /\ threads.made < MaxRequests
    /\ LET hook_id == threads.made + 1
       IN  /\ header_hooks' = IF headers_hook # None
                              THEN DictMerge(header_hooks, [k \in {hook_id} |-> headers_hook])
                              ELSE header_hooks
           /\ threads' = [threads EXCEPT !.made = hook_id,
                                         !.th[t] = [pc |-> "open", hook_id |-> hook_id,
                                                    headers_hook |-> headers_hook,
                                                    outcome |-> None]]
    /\ UNCHANGED <<dirVars, px, rd, ob, ex, openers, wire, resp, session, conn, gz, socks>>

\* lines 509-510 and 529: open returned, the hook is popped, the response returned
RealHandleReturn(t) ==
    /\ threads.th[t].pc = "open"
    /\ header_hooks' = DictDel(header_hooks, threads.th[t].hook_id)
    /\ threads' = [threads EXCEPT !.th[t].pc = "idle", !.th[t].outcome = "returned"]
    /\ UNCHANGED <<dirVars, px, rd, ob, ex, openers, wire, resp, session, conn, gz, socks>>

\* lines 511-527: open raised, an except clause raises the translated error
RealHandleRaise(t) ==
    /\ threads.th[t].pc = "open"
    /\ threads' = [threads EXCEPT !.th[t].pc = "idle", !.th[t].outcome = "raised"]
    /\ UNCHANGED <<dirVars, px, rd, ob, ex, openers, wire, resp, header_hooks, session, conn, gz, socks>>

InitHooks ==
    /\ DirIdle
    /\ px = PxIdle
    /\ rd = RdIdle
    /\ ob = ObIdle
    /\ ex = ExIdle
    /\ openers = NoOpeners
    /\ wire = WireIdle
    /\ resp = RespIdle
    /\ session = SessionIdle
    /\ conn = ConnIdle
    /\ gz = GzIdle
    /\ socks = SocksIdle
    /\ header_hooks = NoHooks
    /\ threads = [stage |-> "requests", made |-> 0,
                  th |-> [t \in Threads |->
                            [pc |-> "idle", hook_id |-> 0, headers_hook |-> None,
                             outcome |-> None]]]

NextHooks ==
    \/ \E t \in Threads, h \in HeaderHooks : RealHandleRegister(t, h)
    \/ \E t \in Threads : RealHandleReturn(t)
    \/ \E t \in Threads : RealHandleRaise(t)

SpecHooks == InitHooks /\ [][NextHooks]_vars

\* C38: the header hook _real_handle registers lives for that request only: once
\* the call has returned or raised, header_hooks no longer holds it, and when no
\* request is in flight the table is empty.
C38_HookLivesForRequest ==
    /\ \A t \in Threads :
           threads.th[t].pc = "idle" => threads.th[t].hook_id \notin DOMAIN header_hooks
    /\ (\A t \in Threads : threads.th[t].pc = "idle") => header_hooks = NoHooks

-----------------------------------------------------------------------------
(* A connection that inject_header_http_conn (networking/utils.py) has      *)
(* wrapped: putheader buffers, endheaders runs the hooks named by the       *)
(* Ytdl-Header-Hook-Id header and writes the buffer out.  The buffer is a   *)
(* dict, kept as its keys in insertion order and the values under each.     *)
(* A hook reads the headers it is passed.                                   *)

\* the most putheader calls before endheaders
MaxPuts == 3
\* the most hooks registered in hooks_dict
MaxHooks == 2

HookIdHeader == "Ytdl-Header-Hook-Id"
ConnHeaderNames == {"Host", "User-Agent"}
\* a header value is a text, kept as the list of its comma-separated fields
ConnHeaderValues == {<< <<"v1">> >>, << <<"v1">>, <<"v2">> >>}
HookFuncs == {None, "hookA", "hookB"}
\* the ids a caller may name: those register_header_hook returned and one that
\* was never registered
HookIdLists == {<<>>, <<"id1">>, <<"id2">>, <<"id1", "id2">>, <<"id9">>}
HookIdOf(n) == IF n = 1 THEN "id1" ELSE "id2"

\* ','.join(hook_ids) and  hook_ids[0].split(',') : the empty text has one
\* field, the empty one
join(hook_ids) == IF hook_ids = <<>> THEN <<"">> ELSE hook_ids
split(text) == text

\* generate_header_hook_header(*hook_ids): the values putheader is given
generate_header_hook_header(hook_ids) == <<join(hook_ids)>>

\* dict assignment and pop on the ordered buffer
BufferSet(b, header, values) ==
    [keys |-> IF header \in DOMAIN b.vals THEN b.keys ELSE Append(b.keys, header),
     vals |-> DictMerge(b.vals, [k \in {header} |-> values])]
BufferPop(b, header) ==
    [keys |-> SelectSeq(b.keys, LAMBDA k : k # header), vals |-> DictDel(b.vals, header)]
EmptyBuffer == [keys |-> <<>>, vals |-> EmptyDict]

\* for header, values in buffer.items(): for value in values: putheader_real
RECURSIVE WriteOut(_, _)
WriteOut(b, n) ==
    IF n > Len(b.keys) THEN <<>>
    ELSE [i \in 1..Len(b.vals[b.keys[n]]) |-> <<b.keys[n], b.vals[b.keys[n]][i]>>]
         \o WriteOut(b, n + 1)

\* the hooks called, in order: those of the named ids that hooks_dict holds
HooksCalled(hooks_dict, hook_ids) ==
    LET named == SelectSeq(hook_ids, LAMBDA id : id \in DOMAIN hooks_dict)
    IN  [i \in 1..Len(named) |-> hooks_dict[named[i]]]

\* register_header_hook(hooks_dict, hook_func)
RegisterHeaderHook(hook_func) ==
    /\ conn.stage = "headers"
    /\ conn.registered < MaxHooks
    /\ conn' = IF hook_func = None THEN [conn EXCEPT !.last_id = None]
               ELSE LET hook_id == HookIdOf(conn.registered + 1)
                    IN  [conn EXCEPT !.registered = conn.registered + 1,
                                     !.last_id = hook_id,
                                     !.hooks_dict = DictMerge(conn.hooks_dict,
                                                              [k \in {hook_id} |-> hook_func])]
    /\ UNCHANGED <<dirVars, px, rd, ob, ex, openers, wire, resp, threads, header_hooks, session, gz, socks>>

\* hc.putheader(header, *values)
PutHeader(header, values) ==
    /\ conn.stage = "headers"
    /\ conn.puts < MaxPuts
    /\ conn' = [conn EXCEPT !.puts = conn.puts + 1,
                            !.buffer = BufferSet(conn.buffer, header, values)]
    /\ UNCHANGED <<dirVars, px, rd, ob, ex, openers, wire, resp, threads, header_hooks, session, gz, socks>>

\* hc.endheaders(): iterating over None raises TypeError before anything is
\* written
EndHeaders ==
    /\ conn.stage = "headers"
    /\ LET has == HookIdHeader \in DOMAIN conn.buffer.vals
           buffer == BufferPop(conn.buffer, HookIdHeader)
           truthy == has /\ conn.buffer.vals[HookIdHeader] # <<>>
           hook_ids == IF truthy THEN split(conn.buffer.vals[HookIdHeader][1]) ELSE <<>>
       IN  conn' = IF ~has
                   THEN [conn EXCEPT !.stage = "raised", !.error = "TypeError",
                                     !.before = conn.buffer, !.buffer = buffer]
                   ELSE [conn EXCEPT !.stage = "ended", !.before = conn.buffer,
                                     !.called = HooksCalled(conn.hooks_dict, hook_ids),
                                     !.named = hook_ids,
                                     !.written = WriteOut(buffer, 1),
                                     !.buffer = EmptyBuffer, !.ended_real = TRUE]
    /\ UNCHANGED <<dirVars, px, rd, ob, ex, openers, wire, resp, threads, header_hooks, session, gz, socks>>

InitConn ==
    /\ DirIdle
    /\ px = PxIdle
    /\ rd = RdIdle
    /\ ob = ObIdle
    /\ ex = ExIdle
    /\ openers = NoOpeners
    /\ wire = WireIdle
    /\ resp = RespIdle
    /\ threads = NoThreads
    /\ header_hooks = NoHooks
    /\ session = SessionIdle
    /\ gz = GzIdle
    /\ socks = SocksIdle
    /\ conn = [stage |-> "headers", hooks_dict |-> EmptyDict, registered |-> 0,
               last_id |-> None, puts |-> 0, buffer |-> EmptyBuffer, before |-> EmptyBuffer,
               named |-> <<>>, called |-> <<>>, written |-> <<>>, error |-> None,
               ended_real |-> FALSE]

NextConn ==
    \/ \E f \in HookFuncs : RegisterHeaderHook(f)
    \/ \E h \in ConnHeaderNames, v \in ConnHeaderValues : PutHeader(h, v)
    \/ \E ids \in HookIdLists : PutHeader(HookIdHeader, generate_header_hook_header(ids))
    \/ EndHeaders

SpecConn == InitConn /\ [][NextConn]_vars

\* C39: whatever putheader calls precede endheaders, with or without a
\* Ytdl-Header-Hook-Id header among them: every buffered header but the hook-id
\* header reaches the real putheader exactly once, the hook-id header is never
\* written, each registered hook it names has been called, the buffer is empty
\* afterwards and the real endheaders has run.
C39_HeadersFlushedOnce ==
    conn.stage \in {"ended", "raised"} =>
        /\ conn.error = None
        /\ conn.ended_real
        /\ conn.buffer = EmptyBuffer
        /\ conn.written = WriteOut(BufferPop(conn.before, HookIdHeader), 1)
        /\ \A i \in 1..Len(conn.written) : conn.written[i][1] # HookIdHeader
        /\ conn.called = HooksCalled(conn.hooks_dict, conn.named)

-----------------------------------------------------------------------------
(* make_socks_proxy_opts (networking/utils.py) and the two places that hand *)
(* it a proxy URL: YDLProxyHandler.proxy_open with make_socks_conn_class    *)
(* under the urllib handler, requests' proxy_manager_for with               *)
(* SocksProxyManager under the requests handler.  A proxy URL is the record *)
(* of what urlparse finds in it.                                            *)

UrllibProxySchemes == <<"http", "socks4", "socks4a", "socks5", "socks4a", "socks">>
RequestsProxySchemes == <<"http", "socks4", "socks4a", "socks5", "socks5h", "https">>

SocksSchemes == {"socks", "socks4", "socks4a", "socks5", "socks5h", "SOCKS5", "http"}
\* url_components.port when the URL names none
PortNone == -1
SocksPorts == {PortNone, 0, 1081}
\* no options made
NoSocksOpts ==
    [proxytype |-> None, addr |-> None, port |-> 0, rdns |-> FALSE, username |-> None,
     password |-> None]
SocksCredentials == {None, "", "us%2Fer", "a+b"}
SocksProxyUrls ==
    {[scheme |-> s, hostname |-> "proxy.example", port |-> p, username |-> u, password |-> w] :
        s \in SocksSchemes, p \in SocksPorts, u \in SocksCredentials,
        w \in {None, "a+b"}}

\* urllib.parse.unquote_plus on the credentials the model uses
unquote_plus(s) ==
    CASE s = "us%2Fer" -> "us/er"
      [] s = "a+b" -> "a b"
      [] OTHER -> s

unquote_if_non_empty(s) == IF ~Truthy(s) THEN s ELSE unquote_plus(s)

\* make_socks_proxy_opts: socks_type is bound by one of three branches; the dict
\* that reads it raises UnboundLocalError when none was taken
make_socks_proxy_opts(url) ==
    LET scheme == Lower(url.scheme)
        socks_type == CASE scheme = "socks5" -> "SOCKS5"
                        [] scheme \in {"socks", "socks4"} -> "SOCKS4"
                        [] scheme = "socks4a" -> "SOCKS4A"
                        [] OTHER -> "unbound"
    IN  IF socks_type = "unbound"
        THEN [error |-> "UnboundLocalError", opts |-> NoSocksOpts]
        ELSE [error |-> None,
              opts |-> [proxytype |-> socks_type, addr |-> url.hostname,
                        port |-> IF url.port \in {PortNone, 0} THEN 1080 ELSE url.port,
                        rdns |-> TRUE,
                        username |-> unquote_if_non_empty(url.username),
                        password |-> unquote_if_non_empty(url.password)]]

\* whether the handler declares the scheme of the proxy supported
ProxySchemeDeclared(h, url) ==
    Lower(url.scheme) \in Range(IF h = "urllib" THEN UrllibProxySchemes ELSE RequestsProxySchemes)

\* whether the handler takes the proxy for a SOCKS proxy: the tuple test of
\* proxy_open, and  proxy.lower().startswith('socks')  of proxy_manager_for
RoutedToSocks(h, url) ==
    IF h = "urllib" THEN Lower(url.scheme) \in {"socks", "socks4", "socks4a", "socks5"}
    ELSE Lower(url.scheme) \in {"socks", "socks4", "socks4a", "socks5", "socks5h"}

\* the handler opens a connection through the proxy selected for the request
SocksConnect ==
    /\ socks.stage = "selected"
    /\ socks' = IF RoutedToSocks(socks.handler, socks.proxy)
                THEN [socks EXCEPT !.stage = "socks", !.made = make_socks_proxy_opts(socks.proxy)]
                ELSE [socks EXCEPT !.stage = "http"]
    /\ UNCHANGED <<dirVars, px, rd, ob, ex, openers, wire, resp, threads, header_hooks, session, conn, gz>>

InitSocks ==
    /\ DirIdle
    /\ px = PxIdle
    /\ rd = RdIdle
    /\ ob = ObIdle
    /\ ex = ExIdle
    /\ openers = NoOpeners
    /\ wire = WireIdle
    /\ resp = RespIdle
    /\ threads = NoThreads
    /\ header_hooks = NoHooks
    /\ session = SessionIdle
    /\ conn = ConnIdle
    /\ gz = GzIdle
    /\ socks \in {[stage |-> "selected", handler |-> hu[1], proxy |-> hu[2],
                   made |-> [error |-> None, opts |-> NoSocksOpts]] :
                    hu \in {x \in {"urllib", "requests"} \X SocksProxyUrls :
                              ProxySchemeDeclared(x[1], x[2])}}

NextSocks == SocksConnect

SpecSocks == InitSocks /\ [][NextSocks]_vars

\* C40: for every SOCKS scheme a handler declares supported or routes to it
\* (socks, socks4, socks4a, socks5, socks5h) make_socks_proxy_opts returns the
\* complete options: a proxy type, the address, the port or 1080, remote
\* resolution, and the unquoted username and password; it raises for none of them.
C40_SocksOptsComplete ==
    socks.stage = "socks" =>
        /\ socks.made.error = None
        /\ socks.made.opts.proxytype \in {"SOCKS4", "SOCKS4A", "SOCKS5"}
        /\ socks.made.opts.addr = socks.proxy.hostname
        /\ socks.made.opts.port = IF socks.proxy.port \in {PortNone, 0} THEN 1080 ELSE socks.proxy.port
        /\ socks.made.opts.rdns
        /\ socks.made.opts.username = unquote_if_non_empty(socks.proxy.username)
        /\ socks.made.opts.password = unquote_if_non_empty(socks.proxy.password)

====
